---- MODULE Spec2Model ----
(***************************************************************************)
(* Model of the PC-build assistant (src/ai_service/app.py, compat.py):     *)
(* the build generator build_always with its selection helpers and budget  *)
(* reconciler, the compatibility checker, and the /chat handler with its   *)
(* in-memory session store.                                                *)
(*                                                                         *)
(* Conventions.                                                            *)
(*  - A text field (socket, ram_type, form_factor, model) is a sequence of *)
(*    word tokens; " " is a blank, "/" and "," are the separators the code *)
(*    splits on.  Python's substring test `w in s` is membership of w in   *)
(*    the words of s (Has).                                                *)
(*  - A part is a record with every CSV column; a column the CSV leaves    *)
(*    empty is 0 for numbers and <<>> for text (pandas fillna("") followed  *)
(*    by the code's `or 0` / `or ""`).                                     *)
(*  - Prices are integers; the float caps budget * (w / weight_sum) * m    *)
(*    are kept as exact fractions [n, d] and compared by cross             *)
(*    multiplication.                                                      *)
(***************************************************************************)
EXTENDS Integers, Sequences, FiniteSets, TLC

\* ------------------------------------------------------------------------
\* Bounds of the model
\* ------------------------------------------------------------------------
\* Budgets are 0, 300, ..., MaxBudgetUnits * 300, and one workstation budget.
MaxBudgetUnits == 6
\* Number of /chat requests followed in one behaviour.
MaxRequests == 3

Budgets == {k * 300 : k \in 0..MaxBudgetUnits} \cup {30000}

\* ------------------------------------------------------------------------
\* Text
\* ------------------------------------------------------------------------
Range(s) == {s[i] : i \in DOMAIN s}

\* str.upper() on one word
UpperTok(t) ==
    CASE t = "ddr4" -> "DDR4"
      [] t = "ddr5" -> "DDR5"
      [] t = "am5" -> "AM5"
      [] t = "nvme" -> "NVME"
      [] t = "rtx" -> "RTX"
      [] t = "gtx" -> "GTX"
      [] t = "hd" -> "HD"
      [] t = "intel" -> "INTEL"
      [] OTHER -> t

\* str.lower() on one word
LowerTok(t) ==
    CASE t = "DDR4" -> "ddr4"
      [] t = "DDR5" -> "ddr5"
      [] t = "AM5" -> "am5"
      [] t = "NVMe" -> "nvme"
      [] t = "NVME" -> "nvme"
      [] t = "M.2" -> "m.2"
      [] t = "HDD" -> "hdd"
      [] t = "SSD" -> "ssd"
      [] t = "RGB" -> "rgb"
      [] t = "RTX" -> "rtx"
      [] t = "GTX" -> "gtx"
      [] OTHER -> t

Upper(s) == [i \in DOMAIN s |-> UpperTok(s[i])]
Lower(s) == [i \in DOMAIN s |-> LowerTok(s[i])]

\* the words a word contains as substrings (besides itself)
SubWords(t) ==
    CASE t = "DDR5-6000" -> {"DDR5-6000", "DDR5"}
      [] t = "DDR4-3200" -> {"DDR4-3200", "DDR4"}
      [] OTHER -> {t}

\* Python `w in s`
Has(s, w) == \E i \in DOMAIN s : w \in SubWords(s[i])

RECURSIVE LStrip(_)
LStrip(s) == IF s # <<>> /\ Head(s) = " " THEN LStrip(Tail(s)) ELSE s

RECURSIVE RStrip(_)
RStrip(s) ==
    IF s # <<>> /\ s[Len(s)] = " " THEN RStrip(SubSeq(s, 1, Len(s) - 1)) ELSE s

\* str.strip()
Strip(s) == RStrip(LStrip(s))

\* s.split(sep): the pieces of s between occurrences of sep
RECURSIVE SplitAcc(_, _, _)
SplitAcc(s, sep, cur) ==
    IF s = <<>> THEN <<cur>>
    ELSE IF Head(s) = sep THEN <<cur>> \o SplitAcc(Tail(s), sep, <<>>)
    ELSE SplitAcc(Tail(s), sep, Append(cur, Head(s)))

Split(s, sep) == SplitAcc(s, sep, <<>>)

\* ------------------------------------------------------------------------
\* Parts
\* ------------------------------------------------------------------------
Categories == {"GPU", "CPU", "Motherboard", "RAM", "Storage", "PSU", "Case"}

\* categories = ["GPU", "CPU", "Motherboard", "RAM", "Storage", "PSU", "Case"]
categories == <<"GPU", "CPU", "Motherboard", "RAM", "Storage", "PSU", "Case">>

Part(id, cat, price, socket, ramtype, vram, len, maxlen, watt, cap, ff, model) ==
    [id |-> id, category |-> cat, price_usd |-> price, socket |-> socket,
     ram_type |-> ramtype, vram_gb |-> vram, length_mm |-> len,
     max_gpu_length_mm |-> maxlen, psu_wattage |-> watt, capacity_gb |-> cap,
     form_factor |-> ff, model |-> model]

\* Python None
NoPart == Part(-1, "", 0, <<>>, <<>>, 0, 0, 0, 0, 0, <<>>, <<>>)
\* Python {} (the empty placeholder)
EmptyPart == Part(0, "", 0, <<>>, <<>>, 0, 0, 0, 0, 0, <<>>, <<>>)

\* Python truthiness of a build entry: None and {} are falsy
Truthy(p) == p # NoPart /\ p # EmptyPart

\* the rows of parts.csv the catalogs are cut from
AllParts == <<
    Part(1, "CPU", 150, <<"LGA1700">>, <<>>, 0, 0, 0, 0, 0, <<>>, <<"i5">>),
    Part(2, "CPU", 300, <<"AM5">>, <<>>, 0, 0, 0, 0, 0, <<>>, <<"ryzen">>),
    Part(3, "Motherboard", 200, <<"LGA1700">>, <<"DDR4">>, 0, 0, 0, 0, 0, <<>>, <<"b660">>),
    Part(4, "Motherboard", 120, <<"LGA1700", " ">>, <<"DDR4", "/", "DDR5">>, 0, 0, 0, 0, 0, <<>>, <<"h610">>),
    Part(5, "Motherboard", 250, <<"AM5">>, <<"DDR5">>, 0, 0, 0, 0, 0, <<>>, <<"b650">>),
    Part(6, "RAM", 50, <<>>, <<"DDR4">>, 0, 0, 0, 0, 16, <<>>, <<"value">>),
    Part(7, "RAM", 90, <<>>, <<"DDR5">>, 0, 0, 0, 0, 16, <<>>, <<"fury", "RGB">>),
    Part(8, "RAM", 140, <<>>, <<"DDR5">>, 0, 0, 0, 0, 32, <<>>, <<"fury">>),
    Part(9, "GPU", 150, <<>>, <<>>, 4, 200, 0, 450, 0, <<>>, <<"gtx">>),
    Part(10, "GPU", 350, <<>>, <<>>, 8, 300, 0, 650, 0, <<>>, <<"rtx">>),
    Part(11, "GPU", 900, <<>>, <<>>, 16, 340, 0, 850, 0, <<>>, <<"rtx">>),
    Part(12, "Storage", 80, <<>>, <<>>, 0, 0, 0, 0, 1000, <<"NVMe">>, <<"p3">>),
    Part(13, "Storage", 60, <<>>, <<>>, 0, 0, 0, 0, 2000, <<"HDD">>, <<"blue">>),
    Part(14, "Storage", 160, <<>>, <<>>, 0, 0, 0, 0, 2000, <<"M.2">>, <<"sn850">>),
    Part(15, "PSU", 50, <<>>, <<>>, 0, 0, 0, 550, 0, <<>>, <<"cx">>),
    Part(16, "PSU", 70, <<>>, <<>>, 0, 0, 0, 650, 0, <<>>, <<"rm">>),
    Part(17, "PSU", 100, <<>>, <<>>, 0, 0, 0, 750, 0, <<>>, <<"rm">>),
    Part(18, "PSU", 140, <<>>, <<>>, 0, 0, 0, 850, 0, <<>>, <<"hx">>),
    Part(19, "Case", 60, <<>>, <<>>, 0, 0, 320, 0, 0, <<>>, <<"mini">>),
    Part(20, "Case", 110, <<>>, <<>>, 0, 0, 360, 0, 0, <<>>, <<"tower">>),
    Part(21, "Case", 0, <<>>, <<>>, 0, 0, 400, 0, 0, <<>>, <<"unpriced">>),
    Part(22, "Storage", 56, <<>>, <<>>, 0, 0, 0, 0, 1024, <<"NVMe">>, <<"nv2">>)
>>

\* keep the rows of s that satisfy Keep, in order
Without(s, drop) == SelectSeq(s, LAMBDA p : p.id \notin drop)
WithoutCategory(s, c) == SelectSeq(s, LAMBDA p : p.category # c)

\* The catalogs: every row, one row missing, one whole category missing, none,
\* and every row plus a RAM row without a ram_type, or plus rows without a
\* price (a CPU, a RAM module, a GPU and a drive, each the largest of its kind),
\* or with its GPUs replaced by a workstation card longer than any case takes
\* and two consumer cards, the
\* dearer of these with less VRAM, and a SATA drive added, or with nothing
\* but its small RAM modules and its small GPUs.
Catalogs ==
    {AllParts, <<>>}
        \cup {Without(AllParts, {i}) : i \in DOMAIN AllParts}
        \cup {WithoutCategory(AllParts, c) : c \in Categories}
        \cup {AllParts \o
                <<Part(23, "RAM", 45, <<>>, <<>>, 0, 0, 0, 0, 16, <<>>, <<"generic">>)>>,
              AllParts \o
                <<Part(24, "RAM", 0, <<>>, <<"DDR5">>, 0, 0, 0, 0, 64, <<>>, <<"sample">>),
                  Part(25, "GPU", 0, <<>>, <<>>, 24, 300, 0, 650, 0, <<>>, <<"sample">>),
                  Part(26, "Storage", 0, <<>>, <<>>, 0, 0, 0, 0, 4000, <<"NVMe">>, <<"sample">>),
                  Part(27, "CPU", 0, <<"AM5">>, <<>>, 0, 0, 0, 0, 0, <<>>, <<"sample">>)>>,
              WithoutCategory(AllParts, "GPU") \o
                <<Part(28, "GPU", 12000, <<>>, <<>>, 8, 450, 0, 650, 0, <<>>, <<"pro">>),
                  Part(29, "GPU", 500, <<>>, <<>>, 9, 300, 0, 650, 0, <<>>, <<"plus">>),
                  Part(30, "GPU", 600, <<>>, <<>>, 6, 300, 0, 650, 0, <<>>, <<"oc">>),
                  Part(31, "Storage", 90, <<>>, <<>>, 0, 0, 0, 0, 2000, <<"SATA">>, <<"mx500">>)>>,
              SelectSeq(AllParts, LAMBDA p : p.id \in {6, 7, 9, 10})}

\* def money(v): float(v or 0), 0.0 on failure
money(v) == v

\* def parts_by_category(parts, category): a new list, catalog order kept
parts_by_category(parts, category) ==
    SelectSeq(parts, LAMBDA p : p.category = category)

\* list.sort(key=price): Python's sort is stable
SortByPrice(s) ==
    LET rank(i) ==
            Cardinality({j \in DOMAIN s :
                \/ money(s[j].price_usd) < money(s[i].price_usd)
                \/ (money(s[j].price_usd) = money(s[i].price_usd) /\ j < i)}) + 1
    IN  [k \in DOMAIN s |-> s[CHOOSE i \in DOMAIN s : rank(i) = k]]

\* sorted(items, key=price)[0] if items else None
Cheapest(items) == IF items = <<>> THEN NoPart ELSE SortByPrice(items)[1]

\* items sorted by price, [-1] if items else None
Priciest(items) ==
    IF items = <<>> THEN NoPart ELSE SortByPrice(items)[Len(items)]

\* ------------------------------------------------------------------------
\* Messages.  A message is the set of the keywords and phrases that occur in
\* its normalised text, the titles it mentions, in order, the amount
\* extract_budget finds in it (NoBudget: None), and the compacted part names
\* that occur in its compacted text.
\* ------------------------------------------------------------------------
NoBudget == -1

Msg(words, titles, amount, names) ==
    [words |-> words, titles |-> titles, amount |-> amount, names |-> names]

\* def wants_rgb(message)
wants_rgb(message) == message.words \cap {"rgb", "lighting", "led"} # {}

\* def wants_quiet(message)
wants_quiet(message) == message.words \cap {"quiet", "silent", "low noise", "low-noise"} # {}

LEVEL_MIN == {"minimum", "min "}
LEVEL_REC == {"recommended", "rec "}
LEVEL_HIGH == {"high end", "high-end", "ultra", "max", "future proof", "future-proof", "overkill"}

\* def detect_level(message)
detect_level(message) ==
    IF message.words \cap LEVEL_HIGH # {} THEN "high_end"
    ELSE IF message.words \cap LEVEL_MIN # {} THEN "minimum"
    ELSE IF message.words \cap LEVEL_REC # {} THEN "recommended"
    ELSE "both"

\* def extract_budget(message)
extract_budget(message) == message.amount

\* ------------------------------------------------------------------------
\* Requirements profile (compat.py)
\* ------------------------------------------------------------------------
\* rows of applications.csv, keyed by lower-cased name
APPLICATION_REQUIREMENTS ==
    ("blender" :> [min_ram |-> 16, recommended_ram |-> 32, cpu_cores |-> 8,
                   gpu_vram |-> 8, storage_type |-> <<"nvme">>])
    @@ ("vscode" :> [min_ram |-> 4, recommended_ram |-> 0, cpu_cores |-> 2,
                     gpu_vram |-> 0, storage_type |-> <<"SSD">>])
    @@ ("unreal" :> [min_ram |-> 24, recommended_ram |-> 64, cpu_cores |-> 6,
                     gpu_vram |-> 12, storage_type |-> <<>>])

\* rows of games.csv, keyed by lower-cased name
GAME_REQUIREMENTS ==
    ("valorant" :> [min_gpu |-> <<"intel", " ", "hd">>, recommended_gpu |-> <<"gtx">>,
                    min_ram |-> 4, recommended_ram |-> 8])
    @@ ("cyberpunk" :> [min_gpu |-> <<"gtx">>, recommended_gpu |-> <<"rtx">>,
                        min_ram |-> 12, recommended_ram |-> 20])
    @@ ("tetris" :> [min_gpu |-> <<"intel">>, recommended_gpu |-> <<"hd">>,
                     min_ram |-> 0, recommended_ram |-> 0])

\* def has_app(name) / has_game(name)
has_app(name) == name \in DOMAIN APPLICATION_REQUIREMENTS
has_game(name) == name \in DOMAIN GAME_REQUIREMENTS

\* def extract_known_titles(message): (apps_found, games_found)
extract_known_titles(message) ==
    [apps |-> SelectSeq(message.titles, has_app),
     games |-> SelectSeq(message.titles, has_game)]

Max(a, b) == IF a >= b THEN a ELSE b
Min(a, b) == IF a <= b THEN a ELSE b

\* x or d
OrElse(x, d) == IF x = 0 THEN d ELSE x

tiers == [low |-> 0, mid |-> 1, high |-> 2]

\* def _infer_gpu_tier_from_text(gpu_text)
infer_gpu_tier_from_text(gpu_text) ==
    LET s == Upper(gpu_text)
    IN  IF Has(s, "RTX") THEN "high"
        ELSE IF Has(s, "GTX") \/ Has(s, "RX") \/ Has(s, "ARC") THEN "mid"
        ELSE IF Has(s, "HD") \/ Has(s, "INTEL") THEN "low"
        ELSE "mid"

\* max([a, b, c], key=tiers.get): the first of the highest rank
MaxTier(a, b, c) ==
    IF tiers[a] >= tiers[b] /\ tiers[a] >= tiers[c] THEN a
    ELSE IF tiers[b] >= tiers[c] THEN b
    ELSE c

DefaultAnalysis ==
    [min_ram |-> 8, recommended_ram |-> 16, cpu_cores |-> 4, gpu_vram |-> 0,
     min_gpu_tier |-> "low", storage_type |-> "SSD"]

\* one iteration of `for app in applications`
AnalysisAfterApp(analysis, app) ==
    IF app \notin DOMAIN APPLICATION_REQUIREMENTS THEN analysis
    ELSE LET r == APPLICATION_REQUIREMENTS[app]
         IN  [analysis EXCEPT
                !.min_ram = Max(@, OrElse(r.min_ram, 0)),
                !.recommended_ram = Max(@, OrElse(r.recommended_ram, 16)),
                !.cpu_cores = Max(@, OrElse(r.cpu_cores, 4)),
                !.gpu_vram = Max(@, OrElse(r.gpu_vram, 0)),
                !.storage_type =
                    IF Upper(Strip(r.storage_type)) = <<"NVME">> THEN "NVMe" ELSE @]

\* AnalysisAfterGame taking the game's recommended_ram as it is
AnalysisAfterGameOverwriting(analysis, game) ==
    IF game \notin DOMAIN GAME_REQUIREMENTS THEN analysis
    ELSE LET g == GAME_REQUIREMENTS[game]
             rec_tier == infer_gpu_tier_from_text(g.recommended_gpu)
             min_tier == infer_gpu_tier_from_text(g.min_gpu)
         IN  [analysis EXCEPT
                !.min_gpu_tier = MaxTier(@, rec_tier, min_tier),
                !.min_ram = Max(@, OrElse(g.min_ram, 0)),
                !.recommended_ram = OrElse(g.recommended_ram, 16)]

\* one iteration of `for game in games`
AnalysisAfterGame(analysis, game) ==
    IF game \notin DOMAIN GAME_REQUIREMENTS THEN analysis
    ELSE LET g == GAME_REQUIREMENTS[game]
             rec_tier == infer_gpu_tier_from_text(g.recommended_gpu)
             min_tier == infer_gpu_tier_from_text(g.min_gpu)
         IN  [analysis EXCEPT
                !.min_gpu_tier = MaxTier(@, rec_tier, min_tier),
                !.min_ram = Max(@, OrElse(g.min_ram, 0)),
                !.recommended_ram = Max(@, OrElse(g.recommended_ram, 16))]

RECURSIVE FoldApps(_, _)
FoldApps(analysis, apps) ==
    IF apps = <<>> THEN analysis
    ELSE FoldApps(AnalysisAfterApp(analysis, Head(apps)), Tail(apps))

RECURSIVE FoldGames(_, _)
FoldGames(analysis, games) ==
    IF games = <<>> THEN analysis
    ELSE FoldGames(AnalysisAfterGame(analysis, Head(games)), Tail(games))

\* def get_requirements_analysis(applications, games, usage)
get_requirements_analysis(applications, games, usage) ==
    LET a == FoldGames(FoldApps(DefaultAnalysis, applications), games)
    IN  IF usage.words \cap {"editing", "premiere", "davinci", "after effects"} # {}
        THEN [a EXCEPT !.recommended_ram = Max(@, 32),
                       !.min_gpu_tier = "high",
                       !.storage_type = "NVMe"]
        ELSE a

\* "Tier tuning" that leaves the profile alone at level minimum
TunedReqsHighEndOnly(message, level) ==
    LET t == extract_known_titles(message)
        reqs == get_requirements_analysis(t.apps, t.games, message)
    IN  IF level = "high_end"
        THEN [reqs EXCEPT !.recommended_ram = Max(32, OrElse(reqs.recommended_ram, 16)),
                          !.min_gpu_tier = "high",
                          !.storage_type = "NVMe"]
        ELSE reqs

\* build_always, "Tier tuning"
TunedReqs(message, level) ==
    LET t == extract_known_titles(message)
        reqs == get_requirements_analysis(t.apps, t.games, message)
    IN  IF level = "minimum"
        THEN [reqs EXCEPT !.recommended_ram = Max(16, OrElse(reqs.min_ram, 8))]
        ELSE IF level = "high_end"
        THEN [reqs EXCEPT !.recommended_ram = Max(32, OrElse(reqs.recommended_ram, 16)),
                          !.min_gpu_tier = "high",
                          !.storage_type = "NVMe"]
        ELSE reqs

\* KeptByFilter without the `tier == "mid" and vram < 8` test
KeptByFilterNoMidFloor(requirements, p, budget) ==
    LET req_ram == OrElse(requirements.recommended_ram, 16)
        req_vram == requirements.gpu_vram
        tier == requirements.min_gpu_tier
    IN  /\ p.category = "RAM" => ~(p.capacity_gb < Min(req_ram, 32))
        /\ p.category = "GPU" =>
             /\ ~(req_vram > 0 /\ p.vram_gb < req_vram)
             /\ ~(tier = "high" /\ p.vram_gb < 12)
             /\ ~(tier = "low" /\ p.vram_gb < 4)
             /\ ~(budget # 0 /\ tier # "high" /\ money(p.price_usd) * 100 > budget * 80)

\* KeptByFilter applying the price limit at a budget of 0 too
KeptByFilterAlwaysPriced(requirements, p, budget) ==
    LET req_ram == OrElse(requirements.recommended_ram, 16)
        req_vram == requirements.gpu_vram
        tier == requirements.min_gpu_tier
    IN  /\ p.category = "RAM" => ~(p.capacity_gb < Min(req_ram, 32))
        /\ p.category = "GPU" =>
             /\ ~(req_vram > 0 /\ p.vram_gb < req_vram)
             /\ ~(tier = "high" /\ p.vram_gb < 12)
             /\ ~(tier = "mid" /\ p.vram_gb < 8)
             /\ ~(tier = "low" /\ p.vram_gb < 4)
             /\ ~(tier # "high" /\ money(p.price_usd) * 100 > budget * 80)

\* the test of one row in recommend_parts_for_requirements
KeptByFilter(requirements, p, budget) ==
    LET req_ram == OrElse(requirements.recommended_ram, 16)
        req_vram == requirements.gpu_vram
        tier == requirements.min_gpu_tier
    IN  /\ p.category = "RAM" => ~(p.capacity_gb < Min(req_ram, 32))
        /\ p.category = "GPU" =>
             /\ ~(req_vram > 0 /\ p.vram_gb < req_vram)
             /\ ~(tier = "high" /\ p.vram_gb < 12)
             /\ ~(tier = "mid" /\ p.vram_gb < 8)
             /\ ~(tier = "low" /\ p.vram_gb < 4)
             /\ ~(budget # 0 /\ tier # "high" /\ money(p.price_usd) * 100 > budget * 80)

\* def recommend_parts_for_requirements(requirements, parts, budget)
recommend_parts_for_requirements(requirements, parts, budget) ==
    SelectSeq(parts, LAMBDA p : KeptByFilter(requirements, p, budget))

\* filtered = recommend_parts_for_requirements(reqs, PARTS, budget) or PARTS
FilteredOrAll(reqs, parts, budget) ==
    LET f == recommend_parts_for_requirements(reqs, parts, budget)
    IN  IF f = <<>> THEN parts ELSE f

\* ------------------------------------------------------------------------
\* Build generator (app.py)
\* ------------------------------------------------------------------------
\* def ram_type_set(value) of app.py: the DDR generations named in the field
ram_type_set(value) ==
    LET s == Upper(value)
    IN  (IF Has(s, "DDR4") THEN {"DDR4"} ELSE {})
            \cup (IF Has(s, "DDR5") THEN {"DDR5"} ELSE {})

\* a cap n/d, after min(float(budget), .)
Cap(budget, n, d) ==
    IF budget * d <= n THEN [n |-> budget, d |-> 1] ELSE [n |-> n, d |-> d]

\* price > cap
OverCap(price, cap) == price * cap.d > cap.n

\* def pick_best_within(items, cap, score_fn): the first item of the highest
\* score among those with 0 < price <= cap, None when there is none
pick_best_within(items, cap, score_fn) ==
    LET ok == {i \in DOMAIN items :
                  /\ ~(money(items[i].price_usd) <= 0)
                  /\ ~OverCap(money(items[i].price_usd), cap)}
    IN  IF ok = {} THEN NoPart
        ELSE items[CHOOSE i \in ok :
                      \A j \in ok :
                          \/ score_fn[items[j]] < score_fn[items[i]]
                          \/ (score_fn[items[j]] = score_fn[items[i]] /\ i <= j)]

\* gpu_score without the VRAM term
gpu_score_by_price(g) == money(g.price_usd)

\* def gpu_score(g)
gpu_score(g) == g.vram_gb * 10000 + money(g.price_usd)

\* cpu_score preferring the lower price
cpu_score_cheapest(c) == 0 - money(c.price_usd)

\* def cpu_score(c)
cpu_score(c) == money(c.price_usd)

\* storage_score without the NVMe bonus
storage_score_no_bonus(s) == s.capacity_gb + money(s.price_usd)

\* def storage_score(s)
storage_score(s) ==
    LET ff == Lower(s.form_factor)
        nvme_bonus == IF Has(ff, "nvme") \/ Has(ff, "m.2") THEN 5000 ELSE 0
    IN  s.capacity_gb + nvme_bonus + money(s.price_usd)

\* def ram_score(r, prefer_rgb)
ram_score(r, prefer_rgb) ==
    LET rgb_bonus == IF prefer_rgb /\ Has(Lower(r.model), "rgb") THEN 5000 ELSE 0
    IN  r.capacity_gb * 100 + rgb_bonus + money(r.price_usd)

\* pick_mobo_for_cpu without the socket filter
pick_mobo_for_cpu_any_socket(cpu, pool, preferred_ram) ==
    LET mobos == parts_by_category(pool, "Motherboard")
        pr == ram_type_set(preferred_ram)
        candidates ==
            IF preferred_ram # <<>>
            THEN SelectSeq(mobos,
                     LAMBDA m : pr = {} \/ ram_type_set(m.ram_type) \cap pr # {})
            ELSE mobos
    IN  Priciest(candidates)

\* def pick_mobo_for_cpu(cpu, pool, preferred_ram); preferred_ram <<>> is None
pick_mobo_for_cpu(cpu, pool, preferred_ram) ==
    LET mobos == parts_by_category(pool, "Motherboard")
        sock == Strip(cpu.socket)
        bysock == SelectSeq(mobos, LAMBDA m : Strip(m.socket) = sock)
        pr == ram_type_set(preferred_ram)
        candidates ==
            IF preferred_ram # <<>>
            THEN SelectSeq(bysock,
                     LAMBDA m : pr = {} \/ ram_type_set(m.ram_type) \cap pr # {})
            ELSE bysock
    IN  Priciest(candidates)

\* pick_ram_for_mobo without the RAM-type filter
pick_ram_for_mobo_any_type(mobo, pool, need_gb, prefer_rgb, cap) ==
    LET rams == parts_by_category(pool, "RAM")
        candidates == SortByPrice(SelectSeq(rams, LAMBDA r : r.capacity_gb >= need_gb))
        scoreRam(r) == ram_score(r, prefer_rgb)
        best == pick_best_within(candidates, cap, [r \in Range(candidates) |-> scoreRam(r)])
    IN  IF best # NoPart THEN best
        ELSE IF candidates # <<>> THEN candidates[1] ELSE NoPart

\* def pick_ram_for_mobo(mobo, pool, need_gb, prefer_rgb, cap)
pick_ram_for_mobo(mobo, pool, need_gb, prefer_rgb, cap) ==
    LET rams == parts_by_category(pool, "RAM")
        mset == ram_type_set(mobo.ram_type)
        bytype == SelectSeq(rams,
                     LAMBDA r : mset = {} \/ ram_type_set(r.ram_type) \cap mset # {})
        candidates == SortByPrice(SelectSeq(bytype, LAMBDA r : r.capacity_gb >= need_gb))
        scoreRam(r) == ram_score(r, prefer_rgb)
        best == pick_best_within(candidates, cap, [r \in Range(candidates) |-> scoreRam(r)])
    IN  IF best # NoPart THEN best
        ELSE IF candidates # <<>> THEN candidates[1] ELSE NoPart

\* pick_case_for_gpu without the length constraint
pick_case_for_gpu_any_length(gpu, pool) == Priciest(parts_by_category(pool, "Case"))

\* def pick_case_for_gpu(gpu, pool); gpu NoPart is None
pick_case_for_gpu(gpu, pool) ==
    LET cases == parts_by_category(pool, "Case")
        gl == money(gpu.length_mm)
        fit == SelectSeq(cases, LAMBDA c : money(c.max_gpu_length_mm) >= gl)
    IN  IF cases = <<>> THEN NoPart
        ELSE IF ~Truthy(gpu) \/ gpu.length_mm = 0 THEN Priciest(cases)
        ELSE Priciest(IF fit # <<>> THEN fit ELSE cases)

\* pick_psu_for_gpu without the wattage filter
pick_psu_for_gpu_any_wattage(gpu, pool, quiet) ==
    LET candidates == SortByPrice(parts_by_category(pool, "PSU"))
    IN  IF candidates = <<>> THEN NoPart
        ELSE IF quiet THEN candidates[Len(candidates)]
        ELSE candidates[Min(Len(candidates) - 1, 2) + 1]

\* pick_psu_for_gpu taking the last candidate whatever quiet says
pick_psu_for_gpu_priciest(gpu, pool, quiet) ==
    LET psus == parts_by_category(pool, "PSU")
        need == IF Truthy(gpu) THEN OrElse(gpu.psu_wattage, 650) ELSE 650
        enough == SelectSeq(psus, LAMBDA p : p.psu_wattage >= need)
        candidates == SortByPrice(IF enough # <<>> THEN enough ELSE psus)
    IN  IF psus = <<>> THEN NoPart ELSE candidates[Len(candidates)]

\* def pick_psu_for_gpu(gpu, pool, quiet)
pick_psu_for_gpu(gpu, pool, quiet) ==
    LET psus == parts_by_category(pool, "PSU")
        need == IF Truthy(gpu) THEN OrElse(gpu.psu_wattage, 650) ELSE 650
        enough == SelectSeq(psus, LAMBDA p : p.psu_wattage >= need)
        candidates == SortByPrice(IF enough # <<>> THEN enough ELSE psus)
    IN  IF psus = <<>> THEN NoPart
        ELSE IF quiet THEN candidates[Len(candidates)]
        ELSE candidates[Min(Len(candidates) - 1, 2) + 1]

\* weights, in hundredths
weights ==
    [GPU |-> 42, CPU |-> 20, Motherboard |-> 12, RAM |-> 10, Storage |-> 8,
     PSU |-> 5, Case |-> 3]

RECURSIVE SumWeights(_)
SumWeights(cs) ==
    IF cs = {} THEN 0
    ELSE LET c == CHOOSE x \in cs : TRUE IN weights[c] + SumWeights(cs \ {c})

\* weight_sum summing the weights of every category, owned ones included
weight_sum_of_all(owned) == SumWeights(Categories)

\* weight_sum, in hundredths: sum(weights[c] for c in present) if present else 1.0
weight_sum(owned) ==
    LET present == Categories \ DOMAIN owned
    IN  IF present # {} THEN SumWeights(present) ELSE 100

\* def alloc(cat): float(budget) * (weights[cat] / weight_sum), as the fraction n/d
alloc(cat, budget, owned) == [n |-> budget * weights[cat], d |-> weight_sum(owned)]

\* min(float(budget), alloc(cat) * mult), mult in hundredths
CapFor(cat, budget, owned, mult) ==
    LET a == alloc(cat, budget, owned)
    IN  Cap(budget, a.n * mult, a.d * 100)

\* a call of build_always: the catalog PARTS it reads and its arguments
Ctx(parts, message, budget, owned, level) ==
    [parts |-> parts, message |-> message, budget |-> budget, owned |-> owned,
     level |-> level]

\* its local reqs, after "Tier tuning"
Reqs(ctx) == TunedReqs(ctx.message, ctx.level)

\* its local filtered
Filtered(ctx) == FilteredOrAll(Reqs(ctx), ctx.parts, ctx.budget)

\* build = {c: None for c in categories}, then the owned parts locked in
LockedBuild(ctx) ==
    [c \in Categories |-> IF c \in DOMAIN ctx.owned THEN ctx.owned[c] ELSE NoPart]

\* build.get(cat) if isinstance(build.get(cat), dict) else {}
DictOrEmpty(p) == IF p = NoPart THEN EmptyPart ELSE p

\* SelectCPU falling back to the most expensive CPU, sorted(...)[-1]
SelectCPUPriciestFallback(ctx, build) ==
    LET cpus == parts_by_category(Filtered(ctx), "CPU")
        cpu_cap == CapFor("CPU", ctx.budget, ctx.owned,
                          IF ctx.level = "high_end" THEN 125 ELSE 110)
        best == pick_best_within(cpus, cpu_cap, [c \in Range(cpus) |-> cpu_score(c)])
    IN  IF best # NoPart THEN best ELSE Priciest(cpus)

\* "# CPU"
SelectCPU(ctx, build) ==
    LET cpus == parts_by_category(Filtered(ctx), "CPU")
        cpu_cap == CapFor("CPU", ctx.budget, ctx.owned,
                          IF ctx.level = "high_end" THEN 125 ELSE 110)
        best == pick_best_within(cpus, cpu_cap, [c \in Range(cpus) |-> cpu_score(c)])
    IN  IF best # NoPart THEN best ELSE Cheapest(cpus)

\* "# Motherboard"
SelectMotherboard(ctx, build) ==
    LET cpu == DictOrEmpty(build["CPU"])
        preferred_ram == IF ctx.budget >= 900 THEN <<"DDR5">> ELSE <<"DDR4">>
        m1 == pick_mobo_for_cpu(cpu, Filtered(ctx), preferred_ram)
        m2 == pick_mobo_for_cpu(cpu, Filtered(ctx), <<>>)
    IN  IF m1 # NoPart THEN m1
        ELSE IF m2 # NoPart THEN m2
        ELSE Cheapest(parts_by_category(Filtered(ctx), "Motherboard"))

\* "# RAM"
SelectRAM(ctx, build) ==
    LET mobo == DictOrEmpty(build["Motherboard"])
        n0 == OrElse(Reqs(ctx).recommended_ram, 16)
        need_gb == IF ctx.level = "high_end" THEN Max(32, n0) ELSE n0
        ram_cap == CapFor("RAM", ctx.budget, ctx.owned, 125)
        r == pick_ram_for_mobo(mobo, Filtered(ctx), need_gb,
                               wants_rgb(ctx.message), ram_cap)
    IN  IF r # NoPart THEN r
        ELSE Cheapest(parts_by_category(Filtered(ctx), "RAM"))

\* "# GPU" without the fallback to the GPUs of PARTS
SelectGPUFilteredOnly(ctx, build) ==
    LET gpus == parts_by_category(Filtered(ctx), "GPU")
        gpu_cap == CapFor("GPU", ctx.budget, ctx.owned,
                          IF ctx.level = "high_end" THEN 130 ELSE 120)
        best == pick_best_within(gpus, gpu_cap, [g \in Range(gpus) |-> gpu_score(g)])
    IN  IF best # NoPart THEN best ELSE Cheapest(gpus)

\* "# GPU"
SelectGPU(ctx, build) ==
    LET gpus == parts_by_category(Filtered(ctx), "GPU")
        gpu_cap == CapFor("GPU", ctx.budget, ctx.owned,
                          IF ctx.level = "high_end" THEN 130 ELSE 120)
        best == pick_best_within(gpus, gpu_cap, [g \in Range(gpus) |-> gpu_score(g)])
    IN  IF best # NoPart THEN best
        ELSE IF gpus # <<>> THEN Cheapest(gpus)
        ELSE Cheapest(parts_by_category(ctx.parts, "GPU"))

\* ok(s) of "# Storage"
StorageOk(s, desired, need_gb) ==
    LET ff == Lower(s.form_factor)
    IN  IF s.capacity_gb < need_gb THEN FALSE
        ELSE IF desired = "nvme" THEN Has(ff, "nvme") \/ Has(ff, "m.2")
        ELSE IF desired = "ssd" THEN ~Has(ff, "hdd")
        ELSE TRUE

\* "# Storage"
SelectStorage(ctx, build) ==
    LET stor == parts_by_category(Filtered(ctx), "Storage")
        desired == LowerTok(Reqs(ctx).storage_type)
        need_gb == IF ctx.budget >= 1800 \/ ctx.level = "high_end" THEN 2000 ELSE 1000
        oks == SelectSeq(stor, LAMBDA s : StorageOk(s, desired, need_gb))
        candidates == IF oks # <<>> THEN oks ELSE stor
        storage_cap == CapFor("Storage", ctx.budget, ctx.owned, 130)
        best == pick_best_within(candidates, storage_cap,
                                 [d \in Range(candidates) |-> storage_score(d)])
    IN  IF best # NoPart THEN best ELSE Cheapest(candidates)

\* "# Case"
SelectCase(ctx, build) == pick_case_for_gpu(build["GPU"], Filtered(ctx))

\* "# PSU"
SelectPSU(ctx, build) ==
    pick_psu_for_gpu(build["GPU"], Filtered(ctx), wants_quiet(ctx.message))

\* the selection steps in the order build_always runs them
StepOrder == <<"CPU", "Motherboard", "RAM", "GPU", "Storage", "Case", "PSU">>

Select(cat, ctx, build) ==
    CASE cat = "CPU" -> SelectCPU(ctx, build)
      [] cat = "Motherboard" -> SelectMotherboard(ctx, build)
      [] cat = "RAM" -> SelectRAM(ctx, build)
      [] cat = "GPU" -> SelectGPU(ctx, build)
      [] cat = "Storage" -> SelectStorage(ctx, build)
      [] cat = "Case" -> SelectCase(ctx, build)
      [] cat = "PSU" -> SelectPSU(ctx, build)

\* `if cat not in owned: build[cat] = ...`
AfterSelect(cat, ctx, build) ==
    IF cat \in DOMAIN ctx.owned THEN build
    ELSE [build EXCEPT ![cat] = Select(cat, ctx, build)]

\* Ensure without the fallback loop: an unresolved category stays None
EnsureSkipped(ctx, build) == build

\* "# Ensure nothing is None by falling back to cheapest per category"
Ensure(ctx, build) ==
    [c \in Categories |->
        IF build[c] # NoPart THEN build[c]
        ELSE LET pool == parts_by_category(ctx.parts, c)
             IN  IF pool # <<>> THEN Cheapest(pool) ELSE EmptyPart]

\* TotalOf without `if cat in owned: continue`
TotalOfAll(ctx, build) ==
    money(build["GPU"].price_usd) + money(build["CPU"].price_usd)
        + money(build["Motherboard"].price_usd) + money(build["RAM"].price_usd)
        + money(build["Storage"].price_usd) + money(build["PSU"].price_usd)
        + money(build["Case"].price_usd)

\* "# Total of missing only"
TotalOf(ctx, build) ==
    LET price(c) == IF c \in DOMAIN ctx.owned THEN 0 ELSE money(build[c].price_usd)
    IN  price("GPU") + price("CPU") + price("Motherboard") + price("RAM")
            + price("Storage") + price("PSU") + price("Case")

\* priority = ["GPU", "CPU", "Motherboard", "RAM", "Storage", "PSU", "Case"]
priority == <<"GPU", "CPU", "Motherboard", "RAM", "Storage", "PSU", "Case">>

\* cheaper = [p for p in pool if 0 < money(p.price) < cur_price], sorted
CheaperParts(parts, cat, cur) ==
    SortByPrice(SelectSeq(parts_by_category(parts, cat),
        LAMBDA p : 0 < money(p.price_usd) /\ money(p.price_usd) < money(cur.price_usd)))

\* Downgrade taking the next cheaper part, cheaper[-1], not the cheapest
DowngradeOneNotch(ctx, build, cat) ==
    LET cheaper == CheaperParts(ctx.parts, cat, build[cat])
    IN  IF cheaper # <<>> THEN [build EXCEPT ![cat] = cheaper[Len(cheaper)]] ELSE build

\* one iteration of the downgrade loop, for a category that is not owned
Downgrade(ctx, build, cat) ==
    LET cheaper == CheaperParts(ctx.parts, cat, build[cat])
    IN  IF cheaper # <<>> THEN [build EXCEPT ![cat] = cheaper[1]] ELSE build

\* ReconcileOne without `if cat in owned: continue`
ReconcileOneAnyway(ctx, build, cat) == Downgrade(ctx, build, cat)

\* one iteration of the downgrade loop: `if cat in owned: continue`
ReconcileOne(ctx, build, cat) ==
    IF cat \in DOMAIN ctx.owned THEN build ELSE Downgrade(ctx, build, cat)

\* the downgrade loop from position i of priority on
RECURSIVE ReconcileFrom(_, _, _)
ReconcileFrom(ctx, build, i) ==
    IF i > Len(priority) \/ TotalOf(ctx, build) <= ctx.budget THEN build
    ELSE CHOOSE out \in {ReconcileFrom(ctx, b, i + 1) :
                            b \in {ReconcileOne(ctx, build, priority[i])}} : TRUE

RECURSIVE SelectFrom(_, _, _)
SelectFrom(ctx, build, i) ==
    IF i > Len(StepOrder) THEN build
    ELSE CHOOSE out \in {SelectFrom(ctx, b, i + 1) :
                            b \in {AfterSelect(StepOrder[i], ctx, build)}} : TRUE

\* the build before "# If above budget"
Assembled(ctx) ==
    CHOOSE out \in {Ensure(ctx, b) : b \in {SelectFrom(ctx, LockedBuild(ctx), 1)}} : TRUE

\* def build_always(message, budget, owned, level): (build, total)
build_always(ctx) ==
    CHOOSE out \in {[build |-> b, total |-> TotalOf(ctx, b)] :
                        b \in {ReconcileFrom(ctx, a, 1) : a \in {Assembled(ctx)}}} : TRUE

\* ------------------------------------------------------------------------
\* Compatibility checker (compat.py)
\* ------------------------------------------------------------------------
\* def ram_type_set(v) of compat.py: the pieces between "/", else between ","
compat_ram_type_set(v) ==
    LET s == Strip(Upper(v))
        pieces(sep) == {Strip(x) : x \in Range(Split(s, sep))} \ {<<>>}
    IN  IF s = <<>> THEN {}
        ELSE IF "/" \in Range(s) THEN pieces("/")
        ELSE IF "," \in Range(s) THEN pieces(",")
        ELSE {s}

\* the message of a check: its wording and the two values it prints
Issue(text, left, right) == [text |-> text, left |-> left, right |-> right]

\* the empty message ""
NoIssue == Issue("", <<>>, <<>>)

\* build.get(c)
Get(b, c) == IF c \in DOMAIN b THEN b[c] ELSE NoPart

\* def cpu_mobo(cpu, mobo), comparing the sockets as they are stored
cpu_mobo_unstripped(cpu, mobo) ==
    IF ~Truthy(cpu) \/ ~Truthy(mobo)
    THEN [ok |-> FALSE, msg |-> Issue("CPU or motherboard missing", <<>>, <<>>)]
    ELSE IF cpu.socket # mobo.socket
    THEN [ok |-> FALSE, msg |-> Issue("Socket mismatch", cpu.socket, mobo.socket)]
    ELSE [ok |-> TRUE, msg |-> NoIssue]

\* def cpu_mobo(cpu, mobo)
cpu_mobo(cpu, mobo) ==
    IF ~Truthy(cpu) \/ ~Truthy(mobo)
    THEN [ok |-> FALSE, msg |-> Issue("CPU or motherboard missing", <<>>, <<>>)]
    ELSE IF Strip(cpu.socket) # Strip(mobo.socket)
    THEN [ok |-> FALSE, msg |-> Issue("Socket mismatch", cpu.socket, mobo.socket)]
    ELSE [ok |-> TRUE, msg |-> NoIssue]

\* def ram_mobo(ram, mobo), flagging every pair of sets that differ
ram_mobo_equal_sets(ram, mobo) ==
    LET rset == compat_ram_type_set(ram.ram_type)
        mset == compat_ram_type_set(mobo.ram_type)
    IN  IF ~Truthy(ram) \/ ~Truthy(mobo)
        THEN [ok |-> FALSE, msg |-> Issue("RAM or motherboard missing", <<>>, <<>>)]
        ELSE IF rset # {} /\ mset # {} /\ rset # mset
        THEN [ok |-> FALSE, msg |-> Issue("RAM type mismatch", ram.ram_type, mobo.ram_type)]
        ELSE [ok |-> TRUE, msg |-> NoIssue]

\* def ram_mobo(ram, mobo)
ram_mobo(ram, mobo) ==
    LET rset == compat_ram_type_set(ram.ram_type)
        mset == compat_ram_type_set(mobo.ram_type)
    IN  IF ~Truthy(ram) \/ ~Truthy(mobo)
        THEN [ok |-> FALSE, msg |-> Issue("RAM or motherboard missing", <<>>, <<>>)]
        ELSE IF rset # {} /\ mset # {} /\ rset \cap mset = {}
        THEN [ok |-> FALSE, msg |-> Issue("RAM type mismatch", ram.ram_type, mobo.ram_type)]
        ELSE [ok |-> TRUE, msg |-> NoIssue]

\* def gpu_case(gpu, case), failing a GPU exactly as long as the case allows
gpu_case_not_shorter(gpu, case) ==
    LET gpu_len == gpu.length_mm
        case_len == OrElse(case.max_gpu_length_mm, 9999)
    IN  IF ~Truthy(gpu) \/ ~Truthy(case) THEN [ok |-> TRUE, msg |-> NoIssue]
        ELSE IF gpu_len >= case_len
        THEN [ok |-> FALSE, msg |-> Issue("GPU too long", gpu_len, case_len)]
        ELSE [ok |-> TRUE, msg |-> NoIssue]

\* def gpu_case(gpu, case); the lengths are the floats the message prints
gpu_case(gpu, case) ==
    LET gpu_len == gpu.length_mm
        case_len == OrElse(case.max_gpu_length_mm, 9999)
    IN  IF ~Truthy(gpu) \/ ~Truthy(case) THEN [ok |-> TRUE, msg |-> NoIssue]
        ELSE IF gpu_len > case_len
        THEN [ok |-> FALSE, msg |-> Issue("GPU too long", gpu_len, case_len)]
        ELSE [ok |-> TRUE, msg |-> NoIssue]

\* AppendIssue putting the message in front, issues.insert(0, msg)
PrependIssue(issues, res) == IF res.ok THEN issues ELSE <<res.msg>> \o issues

\* issues.append(msg) when the check is not ok
AppendIssue(issues, res) == IF res.ok THEN issues ELSE Append(issues, res.msg)

\* def check_full_build_compatibility(build)
check_full_build_compatibility(b) ==
    LET i1 == AppendIssue(<<>>, cpu_mobo(Get(b, "CPU"), Get(b, "Motherboard")))
        i2 == AppendIssue(i1, ram_mobo(Get(b, "RAM"), Get(b, "Motherboard")))
        i3 == AppendIssue(i2, gpu_case(Get(b, "GPU"), Get(b, "Case")))
    IN  [compatible |-> Len(i3) = 0, issues |-> i3]

\* ------------------------------------------------------------------------
\* The /chat service (app.py)
\* ------------------------------------------------------------------------
INTENT_CUSTOM_PC == "custom_pc"
INTENT_LAPTOP == "laptop"
INTENT_PREBUILT == "prebuilt_pc"
INTENT_SYSTEM_REQUIREMENTS == "system_requirements"
INTENT_HARDWARE_SPECS == "hardware_specs"
INTENT_OUT_OF_SCOPE == "out_of_scope"

PREBUILT_PHRASES ==
    {"prebuilt", "pre build", "pre-built", "pre built", "prebuild", "ready made", "ready-made"}

REQ_KEYWORDS ==
    {"system requirements", "software requirements", "game requirements",
     "minimum requirements", "recommended requirements", "requirements"}

SPEC_WORDS == {"specs", "specifications", "specification"}

PC_RELATED_KEYWORDS ==
    {"pc", "computer", "desktop", "build", "rig", "setup",
     "cpu", "gpu", "graphics card", "motherboard", "ram", "memory",
     "ssd", "hdd", "nvme", "storage", "psu", "power supply", "case", "cooler",
     "intel", "amd", "nvidia", "rtx", "gtx", "radeon", "arc",
     "laptop", "notebook",
     "prebuilt", "pre-built", "pre build", "prebuild",
     "requirements", "specs", "specifications"}

\* any(k in t for k in keys)
AnyIn(message, keys) == message.words \cap keys # {}

\* def is_pc_related(message)
is_pc_related(message) == AnyIn(message, PC_RELATED_KEYWORDS)

\* def detect_intent(message)
detect_intent(message) ==
    IF AnyIn(message, REQ_KEYWORDS) THEN INTENT_SYSTEM_REQUIREMENTS
    ELSE IF AnyIn(message, SPEC_WORDS)
    THEN IF AnyIn(message, {"my pc", "my laptop", "my build", "my setup", "my rig"})
         THEN INTENT_HARDWARE_SPECS
         ELSE INTENT_SYSTEM_REQUIREMENTS
    ELSE IF AnyIn(message, {"laptop", "notebook"}) THEN INTENT_LAPTOP
    ELSE IF AnyIn(message, PREBUILT_PHRASES) THEN INTENT_PREBUILT
    ELSE IF ~is_pc_related(message) THEN INTENT_OUT_OF_SCOPE
    ELSE INTENT_CUSTOM_PC

OWNERSHIP_PHRASES ==
    {"i have", "i own", "already have", "already own", "i bought",
     "i already bought", "my gpu is", "my cpu is", "my motherboard is",
     "my ram is", "my psu is", "my case is"}

\* def contains_ownership(message)
contains_ownership(message) == AnyIn(message, OWNERSHIP_PHRASES)

\* def compact(s): lower case, nothing but letters and digits
compact(s) == Lower(SelectSeq(s, LAMBDA t : t \notin {" ", "/", ","}))

\* def find_part_in_message(category, message): the first row of the category
\* whose compacted model occurs in the message.  (No model of the catalog has
\* two words of three letters or more outside _STOP, so the token-overlap
\* fallback finds nothing.)
find_part_in_message(parts, category, message) ==
    LET candidates == SelectSeq(parts, LAMBDA p : p.category = category)
        hits == SelectSeq(candidates,
                    LAMBDA p : compact(p.model) # <<>> /\ compact(p.model) \in message.names)
    IN  IF hits = <<>> THEN NoPart ELSE hits[1]

\* the GPU detect_owned_parts makes up for "rtx3090": no price, no length
SyntheticGPU ==
    Part(100, "GPU", 0, <<>>, <<>>, 0, 0, 0, 0, 0, <<>>, <<"GeForce", "RTX", "3090">>)

\* the order detect_owned_parts looks the categories up in
OwnedOrder == <<"CPU", "GPU", "Motherboard", "RAM", "Storage", "Case", "PSU">>

\* def detect_owned_parts(message).  (The messages followed here name no GPU
\* number other than 3090, so the generic GPU pattern adds nothing.)
detect_owned_parts(parts, message) ==
    LET found == {c \in Range(OwnedOrder) :
                     Truthy(find_part_in_message(parts, c, message))}
        typo == AnyIn(message, {"rtx3090", "rdx3090"})
        cats == found \cup (IF typo THEN {"GPU"} ELSE {})
    IN  IF ~contains_ownership(message) THEN <<>>
        ELSE [c \in cats |->
                IF c = "GPU" /\ typo THEN SyntheticGPU
                ELSE find_part_in_message(parts, c, message)]

\* sorted(list(owned.keys()))
SortedCategories == <<"CPU", "Case", "GPU", "Motherboard", "PSU", "RAM", "Storage">>
SortedKeys(owned) == SelectSeq(SortedCategories, LAMBDA c : c \in DOMAIN owned)

\* dict.get(k), 0 for a missing key
DictGet(d, k) == IF k \in DOMAIN d THEN d[k] ELSE 0

\* d[k] = v
DictSet(d, k, v) == [x \in DOMAIN d \cup {k} |-> IF x = k THEN v ELSE d[x]]

\* def session_get(session_id): the session's dict; {} for no session id
session_get(mem, sid) ==
    IF sid = <<>> THEN <<>>
    ELSE IF sid \in DOMAIN mem THEN mem[sid] ELSE <<>>

\* SESSION_MEM after the handler wrote d into the dict session_get returned
\* (setdefault stores the dict on first use; the dict of no session is dropped)
SessionStore(mem, sid, d) ==
    IF sid = <<>> THEN mem
    ELSE [x \in DOMAIN mem \cup {sid} |-> IF x = sid THEN d ELSE mem[x]]

\* pool.sort(...) in build_always sorts the list parts_by_category made:
\* PARTS keeps its order.  PartsSortedInPlace is the catalog had the sort
\* been applied to PARTS itself.
PartsSortedInPlace(parts) == SortByPrice(parts)

PartsAfterEnsure(parts) == parts

\* def format_build_response(build, total, user_message, owned): the payload
ResponseOrder == <<"CPU", "GPU", "RAM", "Storage", "Motherboard", "PSU", "Case">>

\* csv_id is str(part.get("id", "")): empty (0) for {} and for the made-up GPU
Item(cat, part, owned) ==
    [category |-> cat,
     csv_id |-> IF Truthy(part) /\ part # SyntheticGPU THEN part.id ELSE 0,
     price_usd |-> money(part.price_usd), owned |-> cat \in DOMAIN owned]

format_build_response(b, t, owned) ==
    LET items_all == [i \in DOMAIN ResponseOrder |->
                        Item(ResponseOrder[i], Get(b, ResponseOrder[i]), owned)]
    IN  [items |-> SelectSeq(items_all, LAMBDA it : ~it.owned),
         total_usd |-> t,
         owned_items |-> SelectSeq(items_all, LAMBDA it : it.owned)]

\* `if budget_provided and total_missing > budget`, with `or` for `and`
OverBudgetNoteEither(budget_provided, total_missing, budget) ==
    budget_provided \/ total_missing > budget

\* `if budget_provided and total_missing > budget`: the "Note: Your budget is
\* below the cheapest full build" paragraph is appended
OverBudgetNote(budget_provided, total_missing, budget) ==
    budget_provided /\ total_missing > budget

\* the "Compatibility note (best-effort)" paragraph: issues[:2], or nothing
CompatNote(chk) ==
    IF chk.compatible THEN <<>> ELSE SubSeq(chk.issues, 1, Min(2, Len(chk.issues)))

\* a response of /chat; the fields a kind of response lacks hold defaults
Response(status, intent, type, level) ==
    [status |-> status, intent |-> intent, type |-> type, level |-> level,
     over_budget_note |-> FALSE, compat_note |-> <<>>,
     build |-> [items |-> <<>>, total_usd |-> 0, owned_items |-> <<>>],
     owned_detected |-> <<>>, budget_provided |-> FALSE, budget_used |-> 0,
     session_id |-> <<>>]

\* before the first request
NoResponse == Response(0, "", "", "")

\* ------------------------------------------------------------------------
\* State
\* ------------------------------------------------------------------------
VARIABLES
    PARTS,        \* the catalog loaded from parts.csv (module global)
    call,         \* the arguments of the running build_always call
    build,        \* its local `build`
    total,        \* its local `total`
    pc,           \* where the call stands: "select", "ensure", "reconcile", "done"
    idx,          \* position in StepOrder / priority
    SESSION_MEM,  \* session id -> the session's dict (module global)
    req,          \* the /chat request handled last
    resp,         \* the response to it
    nreq,         \* the number of requests handled
    history,      \* the build_always calls made so far, with their results
                  \* and the session ids of their requests
    report,       \* the result of check_full_build_compatibility on `build`
    workers       \* concurrent requests: each one's call, locals and position

vars == <<PARTS, call, build, total, pc, idx, SESSION_MEM, req, resp, nreq,
          history, report, workers>>

\* the variables of the service, which a single build_always call leaves alone
chatvars == <<SESSION_MEM, req, resp, nreq, history, report, workers>>

\* before the first request
NoRequest == [session_id |-> <<>>, message |-> Msg({}, <<>>, NoBudget, {})]

\* before the first check
NoReport == [compatible |-> TRUE, issues |-> <<>>]

\* ------------------------------------------------------------------------
\* Inputs of build_always
\* ------------------------------------------------------------------------
BuildMessages ==
    { Msg({"pc"}, <<>>, NoBudget, {}),
      Msg({"pc", "gaming"}, <<"valorant">>, NoBudget, {}),
      Msg({"pc", "ultra", "quiet"}, <<"tetris">>, NoBudget, {}),
      Msg({"pc", "minimum", "rgb"}, <<"blender", "valorant">>, NoBudget, {}),
      Msg({"pc", "recommended", "editing"}, <<"unreal", "cyberpunk">>, NoBudget, {}),
      Msg({"pc", "streaming"}, <<"unreal", "valorant">>, NoBudget, {}),
      Msg({"pc", "editing"}, <<"valorant">>, NoBudget, {}) }

OwnedChoices ==
    { <<>>,
      [c \in {"GPU"} |-> SyntheticGPU],
      [c \in {"CPU", "RAM"} |-> IF c = "CPU" THEN AllParts[2] ELSE AllParts[6]],
      [c \in {"GPU", "Case", "Motherboard"} |->
          IF c = "GPU" THEN AllParts[11]
          ELSE IF c = "Case" THEN AllParts[19] ELSE AllParts[3]] }

\* detect_owned_parts returns rows of PARTS, or the made-up GPU
OwnedFrom(parts, owned) ==
    \A c \in DOMAIN owned : owned[c] = SyntheticGPU \/ owned[c] \in Range(parts)

CurCtx == Ctx(PARTS, call.message, call.budget, call.owned, call.level)

\* ------------------------------------------------------------------------
\* build_always, step by step
\* ------------------------------------------------------------------------
BuildInit ==
    /\ PARTS \in Catalogs
    /\ \E m \in BuildMessages, b \in Budgets, o \in OwnedChoices :
          /\ OwnedFrom(PARTS, o)
          /\ call = [message |-> m, budget |-> b, owned |-> o, level |-> detect_level(m)]
    /\ build = LockedBuild(CurCtx)
    /\ total = 0
    /\ pc = "select"
    /\ idx = 1
    /\ SESSION_MEM = <<>>
    /\ req = NoRequest
    /\ resp = NoResponse
    /\ nreq = 0
    /\ history = <<>>
    /\ report = NoReport
    /\ workers = <<>>

\* the selection step of category cat
Pick(cat) ==
    /\ pc = "select"
    /\ idx <= Len(StepOrder)
    /\ StepOrder[idx] = cat
    /\ build' = AfterSelect(cat, CurCtx, build)
    /\ idx' = idx + 1
    /\ pc' = IF idx = Len(StepOrder) THEN "ensure" ELSE "select"
    /\ UNCHANGED <<PARTS, call, total, chatvars>>

PickCPU == Pick("CPU")
PickMotherboard == Pick("Motherboard")
PickRAM == Pick("RAM")
PickGPU == Pick("GPU")
PickStorage == Pick("Storage")
PickCase == Pick("Case")
PickPSU == Pick("PSU")

\* the cheapest-per-category fallback and the first total
EnsureAndTotal ==
    /\ pc = "ensure"
    /\ build' = Ensure(CurCtx, build)
    /\ total' = TotalOf(CurCtx, build')
    /\ PARTS' = PartsAfterEnsure(PARTS)
    /\ pc' = "reconcile"
    /\ idx' = 1
    /\ UNCHANGED <<call, chatvars>>

\* ReconcileStep without `if total <= budget: break`
ReconcileStepPastBudget ==
    /\ pc = "reconcile"
    /\ idx <= Len(priority)
    /\ build' = ReconcileOne(CurCtx, build, priority[idx])
    /\ total' = TotalOf(CurCtx, build')
    /\ idx' = idx + 1
    /\ UNCHANGED <<PARTS, call, pc, chatvars>>

\* one iteration of `for cat in priority` that does not break
ReconcileStep ==
    /\ pc = "reconcile"
    /\ idx <= Len(priority)
    /\ total > call.budget
    /\ build' = ReconcileOne(CurCtx, build, priority[idx])
    /\ total' = TotalOf(CurCtx, build')
    /\ idx' = idx + 1
    /\ UNCHANGED <<PARTS, call, pc, chatvars>>

\* `if total <= budget: break`, the end of the loop, or no loop at all
Return ==
    /\ pc = "reconcile"
    /\ (idx > Len(priority) \/ total <= call.budget)
    /\ pc' = "done"
    /\ UNCHANGED <<PARTS, call, build, total, idx, chatvars>>

BuildNext ==
    \/ PickCPU \/ PickMotherboard \/ PickRAM \/ PickGPU \/ PickStorage
    \/ PickCase \/ PickPSU
    \/ EnsureAndTotal
    \/ ReconcileStep
    \/ Return

BuildSpec == BuildInit /\ [][BuildNext]_vars

\* ------------------------------------------------------------------------
\* Properties of build_always (checked under BuildSpec)
\* ------------------------------------------------------------------------
Returned == pc = "done"
NotOwned == Categories \ DOMAIN call.owned
InCatalog(c) == {p \in Range(PARTS) : p.category = c}

\* the sum of the prices of the entries of b in the categories cs
RECURSIVE PriceSum(_, _)
PriceSum(b, cs) ==
    IF cs = {} THEN 0
    ELSE LET c == CHOOSE x \in cs : TRUE
         IN  b[c].price_usd + PriceSum(b, cs \ {c})

\* the budget reconciler ran: the assembled total exceeded the budget
Reconciled == Returned /\ idx > 1

\* C1: the returned build has one non-null entry for each of the seven
\* categories; an entry is the empty placeholder only for a category that is
\* not owned and has no part in the catalog, and a placeholder adds 0 to the
\* total.
C1_OneEntryPerCategory ==
    Returned =>
        /\ DOMAIN build = Categories
        /\ \A c \in Categories :
              /\ build[c] # NoPart
              /\ build[c] = EmptyPart => c \in NotOwned /\ InCatalog(c) = {}
        /\ total = PriceSum(build, {c \in NotOwned : build[c] # EmptyPart})

C1_Witness ==
    /\ Returned
    /\ PARTS # <<>>
    /\ \E c \in Categories : build[c] = EmptyPart
    /\ \E c \in Categories : Truthy(build[c])

\* C2: every owned category holds the owned part the caller supplied, at
\* every step of build_always and in the build it returns.
C2_OwnedNeverReplaced ==
    \A c \in DOMAIN call.owned : build[c] = call.owned[c]

C2_Witness ==
    /\ Reconciled
    /\ total > call.budget
    /\ \E c \in DOMAIN call.owned :
          \E p \in InCatalog(c) : 0 < p.price_usd /\ p.price_usd < build[c].price_usd

\* C3: the returned total is the sum of the prices of the non-owned
\* categories of the returned build; owned prices are not in it.
C3_TotalIsNonOwnedSum ==
    Returned => total = PriceSum(build, NotOwned)

C3_Witness ==
    /\ Reconciled
    /\ build # Assembled(CurCtx)
    /\ \E c \in DOMAIN call.owned : build[c].price_usd > 0

\* the score the claim names for category c
Score(c, p, ctx) ==
    CASE c = "GPU" -> p.vram_gb * 10000 + p.price_usd
      [] c = "RAM" ->
            p.capacity_gb * 100
                + (IF wants_rgb(ctx.message) /\ Has(Lower(p.model), "rgb") THEN 5000 ELSE 0)
                + p.price_usd
      [] c = "Storage" ->
            p.capacity_gb
                + (IF Has(Lower(p.form_factor), "nvme") \/ Has(Lower(p.form_factor), "m.2")
                   THEN 5000 ELSE 0)
                + p.price_usd
      [] OTHER -> p.price_usd

WithBudget(ctx, b) == [ctx EXCEPT !.budget = b]

\* C4 as claimed: for budgets b1 <= b2, all else fixed, no non-owned part of
\* the build returned for b2 scores lower than the one returned for b1.
C4_ScoreMonotoneInBudget ==
    Returned =>
        \A b1 \in Budgets :
            b1 <= call.budget =>
                LET r1 == build_always(WithBudget(CurCtx, b1)).build
                IN  \A c \in NotOwned : Score(c, r1[c], CurCtx) <= Score(c, build[c], CurCtx)

\* the CPU selection step has just run for a CPU that is not owned
CpuJustPicked == pc = "select" /\ idx = 2 /\ "CPU" \in NotOwned

\* C4 as amended: for budgets b1 <= b2, all else fixed and the CPU not
\* owned, the CPU the CPU selection step picks for b2 (before the budget
\* reconciler) is not cheaper than the one it picks for b1.
C4_CpuStepMonotoneInBudget ==
    CpuJustPicked =>
        \A b1 \in Budgets :
            b1 <= call.budget =>
                SelectCPU(WithBudget(CurCtx, b1), LockedBuild(CurCtx)).price_usd
                    <= build["CPU"].price_usd

C4_Witness ==
    /\ CpuJustPicked
    /\ \E b1 \in Budgets :
          /\ b1 < call.budget
          /\ Truthy(SelectCPU(WithBudget(CurCtx, b1), LockedBuild(CurCtx)))
          /\ SelectCPU(WithBudget(CurCtx, b1), LockedBuild(CurCtx)).price_usd
                < build["CPU"].price_usd

\* C6 as claimed: the reconciler ends with the total within the budget, or
\* with no non-owned category for which the catalog has a part strictly
\* cheaper than the selected one.
C6_ReconcilerExhaustsCheaper ==
    Reconciled =>
        \/ total <= call.budget
        \/ \A c \in NotOwned :
              ~ \E p \in InCatalog(c) : p.price_usd < build[c].price_usd

\* C6 as amended: the reconciler loop ends (at most one pass over the seven
\* categories), and on return the total is within the budget or no non-owned
\* category has a catalog part with a positive price strictly below the price
\* of the selected part.
C6_ReconcilerExhaustsPricedCheaper ==
    /\ pc = "reconcile" =>
          /\ idx \in 1..(Len(priority) + 1)
          /\ ENABLED (ReconcileStep \/ Return)
    /\ Reconciled =>
          \/ total <= call.budget
          \/ \A c \in NotOwned :
                ~ \E p \in InCatalog(c) :
                      0 < p.price_usd /\ p.price_usd < build[c].price_usd

C6_Witness ==
    /\ Reconciled
    /\ total > call.budget
    /\ build # Assembled(CurCtx)

\* the case of C8: tier mid, nothing owned, a GPU of at least minVram GB
\* priced within 80% of the budget
MidTierCase(minVram) ==
    /\ Reqs(CurCtx).min_gpu_tier = "mid"
    /\ call.owned = <<>>
    /\ \E g \in InCatalog("GPU") :
          /\ g.vram_gb >= 8
          /\ g.vram_gb >= minVram
          /\ g.price_usd * 100 <= 80 * call.budget

\* C8 as claimed: in that case the returned GPU has at least 8 GB.
C8_MidTierGpuReturned ==
    Returned /\ MidTierCase(0) => build["GPU"].vram_gb >= 8

\* C8 as amended: when the GPU of the case also meets the profile's required
\* VRAM, the GPU picked by the GPU selection step has at least 8 GB, and the
\* returned build keeps it whenever the reconciler does not run (assembled
\* total within the budget).
C8_MidTierGpuSelected ==
    MidTierCase(Reqs(CurCtx).gpu_vram) /\ pc \in {"reconcile", "done"} /\ idx = 1
        => build["GPU"].vram_gb >= 8

C8_Witness ==
    /\ MidTierCase(Reqs(CurCtx).gpu_vram)
    /\ Returned
    /\ idx = 1
    /\ \E g \in InCatalog("GPU") : g.vram_gb < 8 /\ g.price_usd < build["GPU"].price_usd

\* ------------------------------------------------------------------------
\* The service: a sequence of /chat requests
\* ------------------------------------------------------------------------
\* session ids as sent (chat strips them)
SessionIds == {<<>>, <<"s1">>, <<"s1", " ">>, <<"s2">>}

\* `if not message`
EmptyMessage == Msg({}, <<>>, NoBudget, {})

ChatMessages ==
    { EmptyMessage,
      Msg({"pc"}, <<>>, 600, {}),
      Msg({"pc"}, <<>>, 0, {}),
      Msg({"pc", "quiet"}, <<>>, NoBudget, {}),
      Msg({"pc", "i have", "rtx3090", "ultra"}, <<"cyberpunk">>, 1800,
          {<<"tower">>, <<"rtx">>}),
      Msg({"weather"}, <<>>, NoBudget, {}),
      Msg({"requirements"}, <<"cyberpunk">>, NoBudget, {}),
      Msg({"specs", "my pc"}, <<>>, NoBudget, {}),
      Msg({"laptop"}, <<>>, 1200, {}),
      Msg({"prebuilt", "pc"}, <<>>, 900, {}) }

ChatCatalogs == {AllParts, <<>>, Without(AllParts, {9})}

\* the state before any build_always call
NoCall == [message |-> EmptyMessage, budget |-> 0, owned |-> <<>>, level |-> "both"]

Init ==
    /\ PARTS \in ChatCatalogs
    /\ SESSION_MEM = <<>>
    /\ req = NoRequest
    /\ resp = NoResponse
    /\ nreq = 0
    /\ history = <<>>
    /\ report = NoReport
    /\ workers = <<>>
    /\ call = NoCall
    /\ build = [c \in Categories |-> NoPart]
    /\ total = 0
    /\ pc = "idle"
    /\ idx = 0

\* the handler returned `response` after leaving `mem` in the session's dict
Served(message, raw, mem, response) ==
    /\ SESSION_MEM' = SessionStore(SESSION_MEM, Strip(raw), mem)
    /\ req' = [session_id |-> raw, message |-> message]
    /\ resp' = response
    /\ nreq' = nreq + 1

\* `if not message: raise HTTPException(400, "Message required")`
ChatMissing ==
    /\ nreq < MaxRequests
    /\ \E raw \in SessionIds :
          /\ req' = [session_id |-> raw, message |-> EmptyMessage]
          /\ resp' = Response(400, "", "error", "")
          /\ nreq' = nreq + 1
    /\ UNCHANGED <<PARTS, call, build, total, pc, idx, SESSION_MEM, history, report, workers>>

\* a request the handler answers without building
ChatOther(intent, type, withLevel, storesLevel) ==
    /\ nreq < MaxRequests
    /\ \E message \in ChatMessages \ {EmptyMessage}, raw \in SessionIds :
          LET mem == session_get(SESSION_MEM, Strip(raw))
              level == detect_level(message)
          IN  /\ detect_intent(message) = intent
              /\ Served(message, raw,
                        IF storesLevel THEN DictSet(mem, "last_level", level) ELSE mem,
                        Response(200, intent, type, IF withLevel THEN level ELSE ""))
    /\ UNCHANGED <<PARTS, call, build, total, pc, idx, history, report, workers>>

ChatOutOfScope == ChatOther(INTENT_OUT_OF_SCOPE, "out_of_scope", FALSE, FALSE)
ChatRequirements == ChatOther(INTENT_SYSTEM_REQUIREMENTS, "requirements", TRUE, TRUE)
ChatSpecs == ChatOther(INTENT_HARDWARE_SPECS, "specs", TRUE, TRUE)
ChatLaptop == ChatOther(INTENT_LAPTOP, "laptop", FALSE, TRUE)
ChatPrebuilt == ChatOther(INTENT_PREBUILT, "prebuilt", FALSE, TRUE)

\* the response to a build request and what the handler leaves behind
BuildOutcome(ctx, mem, chk, res, budget_provided, intent, session_id) ==
    [args |-> [message |-> ctx.message, budget |-> ctx.budget, owned |-> ctx.owned,
               level |-> ctx.level],
     build |-> res.build,
     total |-> res.total,
     chk |-> chk,
     mem |-> DictSet(DictSet(DictSet(mem, "last_level", ctx.level),
                             "last_budget", ctx.budget),
                     "last_owned_categories", SortedKeys(ctx.owned)),
     response |->
        [Response(200, intent, "custom_pc", ctx.level) EXCEPT
            !.over_budget_note = OverBudgetNote(budget_provided, res.total, ctx.budget),
            !.compat_note = CompatNote(chk),
            !.build = format_build_response(res.build, res.total, ctx.owned),
            !.owned_detected = SortedKeys(ctx.owned),
            !.budget_provided = budget_provided,
            !.budget_used = ctx.budget,
            !.session_id = session_id]]

\* the arguments chat would pass if it never consulted the session:
\* `extracted = 1500` for `extracted = int(mem.get("last_budget") or 1500)`
ChatCtxForgetful(parts, mem, message) ==
    LET extracted == extract_budget(message)
    IN  Ctx(parts, message,
            IF extracted # NoBudget THEN extracted ELSE 1500,
            detect_owned_parts(parts, message), detect_level(message))

\* the arguments chat passes to build_always
ChatCtx(parts, mem, message) ==
    LET extracted == extract_budget(message)
    IN  Ctx(parts, message,
            IF extracted # NoBudget THEN extracted
            ELSE OrElse(DictGet(mem, "last_budget"), 1500),
            detect_owned_parts(parts, message), detect_level(message))

\* the build intent.  The session reaches build_always only through the
\* budget it remembers, so the call is worked out once for each set of
\* arguments the sessions give rise to.
ChatBuild ==
    /\ nreq < MaxRequests
    /\ \E message \in ChatMessages \ {EmptyMessage} :
          /\ detect_intent(message) = INTENT_CUSTOM_PC
          /\ \E ctx \in {ChatCtx(PARTS, session_get(SESSION_MEM, Strip(r)), message) :
                            r \in SessionIds} :
             \E res \in {build_always(ctx)} :
             \E chk \in {check_full_build_compatibility(res.build)} :
             \E raw \in SessionIds :
             \E mem \in {session_get(SESSION_MEM, Strip(raw))} :
                /\ ChatCtx(PARTS, mem, message) = ctx
                /\ \E out \in {BuildOutcome(ctx, mem, chk, res,
                                             extract_budget(message) # NoBudget,
                                             detect_intent(message), Strip(raw))} :
                      /\ PARTS' = PartsAfterEnsure(PARTS)
                      /\ call' = out.args
                      /\ build' = out.build
                      /\ total' = out.total
                      /\ pc' = "done"
                      /\ report' = out.chk
                      /\ history' = Append(history,
                                      [call |-> out.args, build |-> out.build,
                                       total |-> out.total, session_id |-> Strip(raw)])
                      /\ Served(message, raw, out.mem, out.response)
    /\ UNCHANGED <<idx, workers>>

Next ==
    \/ ChatMissing
    \/ ChatOutOfScope
    \/ ChatRequirements
    \/ ChatSpecs
    \/ ChatLaptop
    \/ ChatPrebuilt
    \/ ChatBuild

Spec == Init /\ [][Next]_vars

\* ------------------------------------------------------------------------
\* Properties of the service (checked under Spec)
\* ------------------------------------------------------------------------
\* C5: build_always has no hidden state: any two of the calls made so far
\* that had the same message, budget, owned parts and level returned the same
\* build and the same total, whatever was built in between.
C5_SameCallSameBuild ==
    \A i, j \in DOMAIN history :
        history[i].call = history[j].call =>
            /\ history[i].build = history[j].build
            /\ history[i].total = history[j].total

\* the same call twice, with a different build request in between
C5_Witness ==
    /\ Len(history) = 3
    /\ history[1].call = history[3].call
    /\ history[2].call # history[1].call
    /\ history[1].build # history[2].build
    /\ PARTS # <<>>

\* the last response is a build whose total is above the budget it used
OverBudgetResponse ==
    /\ resp.type = "custom_pc"
    /\ resp.build.total_usd > resp.budget_used

Sockets == {<<>>, <<"AM5">>, <<"AM5", " ">>, <<"LGA1700">>}

\* ram_type fields as parts.csv may hold them
RamTypes ==
    {<<>>, <<"DDR4">>, <<"DDR5">>, <<"ddr5">>, <<"DDR5-6000">>, <<"/">>,
     <<"DDR4", "/", "DDR5">>, <<"DDR4", ",", " ", "DDR5">>}

\* a build entry may be None or {}
Missing == {NoPart, EmptyPart}

CheckedCPUs ==
    Missing \cup {Part(1, "CPU", 100, s, <<>>, 0, 0, 0, 0, 0, <<>>, <<"cpu">>) : s \in Sockets}

CheckedMotherboards ==
    Missing \cup {Part(2, "Motherboard", 100, s, r, 0, 0, 0, 0, 0, <<>>, <<"board">>) :
                    s \in Sockets, r \in RamTypes}

CheckedRAM ==
    Missing \cup {Part(3, "RAM", 100, <<>>, r, 0, 0, 0, 0, 16, <<>>, <<"ram">>) : r \in RamTypes}

CheckedGPUs ==
    Missing \cup {Part(4, "GPU", 100, <<>>, <<>>, 8, l, 0, 650, 0, <<>>, <<"gpu">>) :
                    l \in {0, 340, 360, 400}}

CheckedCases ==
    Missing \cup {Part(5, "Case", 100, <<>>, <<>>, 0, 0, l, 0, 0, <<>>, <<"case">>) :
                    l \in {0, 360}}

CompatInit ==
    /\ \E cpu \in CheckedCPUs, mobo \in CheckedMotherboards, ram \in CheckedRAM,
          gpu \in CheckedGPUs, case \in CheckedCases :
          build = [c \in Categories |->
                     CASE c = "CPU" -> cpu
                       [] c = "Motherboard" -> mobo
                       [] c = "RAM" -> ram
                       [] c = "GPU" -> gpu
                       [] c = "Case" -> case
                       [] OTHER -> NoPart]
    /\ report = NoReport
    /\ pc = "check"
    /\ PARTS = <<>>
    /\ call = NoCall
    /\ total = 0
    /\ idx = 0
    /\ SESSION_MEM = <<>>
    /\ req = NoRequest
    /\ resp = NoResponse
    /\ nreq = 0
    /\ history = <<>>
    /\ workers = <<>>

\* report = check_full_build_compatibility(build)
Check ==
    /\ pc = "check"
    /\ report' = check_full_build_compatibility(build)
    /\ pc' = "checked"
    /\ UNCHANGED <<PARTS, call, build, total, idx, SESSION_MEM, req, resp, nreq, history,
                   workers>>

CompatNext == Check

CompatSpec == CompatInit /\ [][CompatNext]_vars

\* ------------------------------------------------------------------------
\* Properties of the compatibility checker (checked under CompatSpec)
\* ------------------------------------------------------------------------
Checked == pc = "checked"

\* both operands of a check are in the build
BothPresent(a, b) == Truthy(build[a]) /\ Truthy(build[b])

\* the positions of the issues with the given wording
IssuesOf(text) == {i \in DOMAIN report.issues : report.issues[i].text = text}

\* exactly one socket-mismatch issue, naming the two sockets as stored
OneSocketIssue ==
    /\ Cardinality(IssuesOf("Socket mismatch")) = 1
    /\ \A i \in IssuesOf("Socket mismatch") :
          /\ report.issues[i].left = build["CPU"].socket
          /\ report.issues[i].right = build["Motherboard"].socket

\* C9 as stated: with CPU and Motherboard present, no socket-mismatch issue
\* when the two socket strings are equal, exactly one, naming both, when they
\* differ.
C9_SocketStringsDecide ==
    (Checked /\ BothPresent("CPU", "Motherboard")) =>
        IF build["CPU"].socket = build["Motherboard"].socket
        THEN IssuesOf("Socket mismatch") = {}
        ELSE OneSocketIssue

\* C9: with CPU and Motherboard present, no socket-mismatch issue when the two
\* sockets are equal once surrounding whitespace is stripped, exactly one,
\* naming both sockets as stored, when they differ after stripping.
C9_StrippedSocketsDecide ==
    (Checked /\ BothPresent("CPU", "Motherboard")) =>
        IF Strip(build["CPU"].socket) = Strip(build["Motherboard"].socket)
        THEN IssuesOf("Socket mismatch") = {}
        ELSE OneSocketIssue

\* LGA1700 on an AM5 board: one issue naming both
C9_Witness ==
    /\ Checked
    /\ build["CPU"].socket = <<"LGA1700">>
    /\ build["Motherboard"].socket = <<"AM5">>
    /\ OneSocketIssue

\* C10: with RAM and Motherboard present, a RAM-type mismatch issue is
\* reported exactly when both RAM-type sets are non-empty and disjoint; DDR5
\* on a DDR4 board is a mismatch, DDR4/DDR5 on a DDR4 board is not.
C10_RamTypeSetsDecide ==
    (Checked /\ BothPresent("RAM", "Motherboard")) =>
        LET rset == compat_ram_type_set(build["RAM"].ram_type)
            mset == compat_ram_type_set(build["Motherboard"].ram_type)
            mismatch == IssuesOf("RAM type mismatch") # {}
        IN  /\ mismatch <=> (rset # {} /\ mset # {} /\ rset \cap mset = {})
            /\ (rset = {<<"DDR5">>} /\ mset = {<<"DDR4">>}) => mismatch
            /\ (rset = {<<"DDR4">>, <<"DDR5">>} /\ mset = {<<"DDR4">>}) => ~mismatch

\* a DDR4/DDR5 module on a DDR4 board: sets that differ and intersect
C10_Witness ==
    /\ Checked
    /\ BothPresent("RAM", "Motherboard")
    /\ build["RAM"].ram_type = <<"DDR4", "/", "DDR5">>
    /\ build["Motherboard"].ram_type = <<"DDR4">>
    /\ IssuesOf("RAM type mismatch") = {}

\* C11: with GPU and Case present and both lengths recorded, one GPU-too-long
\* issue is reported exactly when the GPU is strictly longer than the case
\* allows, and it carries both lengths; 340 in a 360 case passes, 400 in a 360
\* case fails.
C11_GpuTooLongDecides ==
    (/\ Checked
     /\ BothPresent("GPU", "Case")
     /\ build["GPU"].length_mm > 0
     /\ build["Case"].max_gpu_length_mm > 0) =>
        LET gl == build["GPU"].length_mm
            cl == build["Case"].max_gpu_length_mm
            too == IssuesOf("GPU too long")
        IN  /\ IF gl > cl
               THEN /\ Cardinality(too) = 1
                    /\ \A i \in too : /\ report.issues[i].left = gl
                                       /\ report.issues[i].right = cl
               ELSE too = {}
            /\ (gl = 340 /\ cl = 360) => too = {}
            /\ (gl = 400 /\ cl = 360) => too # {}

\* a 400 mm GPU in a 360 mm case: one issue carrying 400 and 360
C11_Witness ==
    /\ Checked
    /\ build["GPU"].length_mm = 400
    /\ build["Case"].max_gpu_length_mm = 360
    /\ \E i \in IssuesOf("GPU too long") :
          report.issues[i].left = 400 /\ report.issues[i].right = 360

\* the wordings each of the three checks can report
CheckTexts ==
    <<{"CPU or motherboard missing", "Socket mismatch"},
      {"RAM or motherboard missing", "RAM type mismatch"},
      {"GPU or case missing", "GPU too long"}>>

\* the operands of the three checks
CheckPairs == <<<<"CPU", "Motherboard">>, <<"RAM", "Motherboard">>, <<"GPU", "Case">>>>

\* the number of the check an issue comes from
CheckOf(issue) == CHOOSE k \in DOMAIN CheckTexts : issue.text \in CheckTexts[k]

\* C12: for each of the three checks, a missing operand (None or {}) makes
\* the report incompatible and puts a message of that check in it.
C12_MissingOperandReported ==
    Checked =>
        \A k \in DOMAIN CheckPairs :
            ~BothPresent(CheckPairs[k][1], CheckPairs[k][2]) =>
                /\ ~report.compatible
                /\ \E i \in DOMAIN report.issues : report.issues[i].text \in CheckTexts[k]

\* whether the k-th check fails on the build, from the fields of the build
CheckFails(k) ==
    CASE k = 1 ->
            \/ ~BothPresent("CPU", "Motherboard")
            \/ Strip(build["CPU"].socket) # Strip(build["Motherboard"].socket)
      [] k = 2 ->
            \/ ~BothPresent("RAM", "Motherboard")
            \/ LET rset == compat_ram_type_set(build["RAM"].ram_type)
                   mset == compat_ram_type_set(build["Motherboard"].ram_type)
               IN  rset # {} /\ mset # {} /\ rset \cap mset = {}
      [] k = 3 ->
            /\ BothPresent("GPU", "Case")
            /\ build["Case"].max_gpu_length_mm # 0
            /\ build["GPU"].length_mm > build["Case"].max_gpu_length_mm

\* C13: the report holds one message for each failed check and none for
\* the others, in the order CPU/Motherboard, RAM/Motherboard, GPU/Case, and
\* compatible is true exactly when the list is empty.
C13_ReportInCheckOrder ==
    Checked =>
        /\ \A k \in DOMAIN CheckTexts :
              Cardinality({i \in DOMAIN report.issues : report.issues[i].text \in CheckTexts[k]})
                  = IF CheckFails(k) THEN 1 ELSE 0
        /\ \A i \in DOMAIN report.issues :
              \E k \in DOMAIN CheckTexts : report.issues[i].text \in CheckTexts[k]
        /\ \A i, j \in DOMAIN report.issues :
              i < j => CheckOf(report.issues[i]) < CheckOf(report.issues[j])
        /\ report.compatible <=> report.issues = <<>>

\* all three checks fail: three messages, in check order
C13_Witness ==
    /\ Checked
    /\ Len(report.issues) = 3
    /\ report.issues[1].text = "Socket mismatch"
    /\ report.issues[2].text = "RAM type mismatch"
    /\ report.issues[3].text = "GPU too long"
    /\ ~report.compatible

\* ------------------------------------------------------------------------
\* Two build requests running at once over the same PARTS
\* ------------------------------------------------------------------------
\* the requests in flight
Procs == {"a", "b"}

\* the build_always calls the concurrent requests make
ConcCalls ==
    {[message |-> m, budget |-> b, owned |-> o, level |-> detect_level(m)] :
        m \in {Msg({"pc"}, <<>>, NoBudget, {}),
                Msg({"pc", "ultra", "quiet"}, <<"tetris">>, NoBudget, {})},
        b \in {300, 1500, 1800},
        o \in {<<>>, [c \in {"CPU", "RAM"} |-> IF c = "CPU" THEN AllParts[2] ELSE AllParts[6]]}}

\* the arguments and the catalog request p works with
WorkerCtx(p) ==
    Ctx(PARTS, workers[p].call.message, workers[p].call.budget, workers[p].call.owned,
        workers[p].call.level)

ConcInit ==
    /\ PARTS \in {AllParts, Without(AllParts, {9}), WithoutCategory(AllParts, "Case")}
    /\ \E calls \in [Procs -> ConcCalls] :
          workers = [p \in Procs |->
                       [call |-> calls[p],
                        build |-> LockedBuild(Ctx(PARTS, calls[p].message, calls[p].budget,
                                                  calls[p].owned, calls[p].level)),
                        total |-> 0, pc |-> "select", idx |-> 1, report |-> NoReport]]
    /\ call = NoCall
    /\ build = [c \in Categories |-> NoPart]
    /\ total = 0
    /\ pc = "idle"
    /\ idx = 0
    /\ SESSION_MEM = <<>>
    /\ req = NoRequest
    /\ resp = NoResponse
    /\ nreq = 0
    /\ history = <<>>
    /\ report = NoReport

\* request p runs its next selection step
WPick(p) ==
    /\ workers[p].pc = "select"
    /\ \E b \in {AfterSelect(StepOrder[workers[p].idx], WorkerCtx(p), workers[p].build)} :
          workers' = [workers EXCEPT
                         ![p].build = b,
                         ![p].idx = @ + 1,
                         ![p].pc = IF workers[p].idx = Len(StepOrder) THEN "ensure" ELSE "select"]
    /\ UNCHANGED PARTS

\* request p runs the cheapest-per-category fallback and its first total
WEnsure(p) ==
    /\ workers[p].pc = "ensure"
    /\ \E b \in {Ensure(WorkerCtx(p), workers[p].build)} :
          workers' = [workers EXCEPT
                         ![p].build = b,
                         ![p].total = TotalOf(WorkerCtx(p), b),
                         ![p].pc = "reconcile",
                         ![p].idx = 1]
    /\ PARTS' = PartsAfterEnsure(PARTS)

\* request p runs one iteration of its downgrade loop
WReconcile(p) ==
    /\ workers[p].pc = "reconcile"
    /\ workers[p].idx <= Len(priority)
    /\ workers[p].total > workers[p].call.budget
    /\ \E b \in {ReconcileOne(WorkerCtx(p), workers[p].build, priority[workers[p].idx])} :
          workers' = [workers EXCEPT
                         ![p].build = b,
                         ![p].total = TotalOf(WorkerCtx(p), b),
                         ![p].idx = @ + 1]
    /\ UNCHANGED PARTS

\* build_always returns to request p
WReturn(p) ==
    /\ workers[p].pc = "reconcile"
    /\ (workers[p].idx > Len(priority) \/ workers[p].total <= workers[p].call.budget)
    /\ workers' = [workers EXCEPT ![p].pc = "done"]
    /\ UNCHANGED PARTS

\* request p runs check_full_build_compatibility on its build
WCheck(p) ==
    /\ workers[p].pc = "done"
    /\ workers' = [workers EXCEPT
                      ![p].report = check_full_build_compatibility(workers[p].build),
                      ![p].pc = "checked"]
    /\ UNCHANGED PARTS

ConcNext ==
    \E p \in Procs :
        /\ \/ WPick(p)
           \/ WEnsure(p)
           \/ WReconcile(p)
           \/ WReturn(p)
           \/ WCheck(p)
        /\ UNCHANGED <<call, build, total, pc, idx, SESSION_MEM, req, resp, nreq, history,
                       report>>

ConcSpec == ConcInit /\ [][ConcNext]_vars

\* ------------------------------------------------------------------------
\* Properties of concurrent requests (checked under ConcSpec)
\* ------------------------------------------------------------------------
\* a step leaves PARTS and every request's arguments, owned map included, as
\* they were
SharedStateKept ==
    /\ PARTS' = PARTS
    /\ \A p \in Procs : workers'[p].call = workers[p].call

\* a request that has returned holds the build and total of the same call
\* run alone
SameAsAlone ==
    \A p \in Procs :
        workers[p].pc \in {"done", "checked"} =>
            \E alone \in {build_always(WorkerCtx(p))} :
                /\ workers[p].build = alone.build
                /\ workers[p].total = alone.total

\* C14: no step of build_always or check_full_build_compatibility changes
\* PARTS (the list, its order, its records) or the caller's owned map, and in
\* every interleaving of two requests over the same catalog each request
\* returns the build and total it returns when run alone.
C14_SharedCatalogUntouched == [][SharedStateKept]_vars /\ []SameAsAlone

\* both requests have finished, with different builds, after a fallback and a
\* downgrade loop ran in between the other's steps
C14_Witness ==
    /\ workers # <<>>
    /\ \A p \in Procs : workers[p].pc = "checked"
    /\ workers["a"].build # workers["b"].build
    /\ workers["a"].call.budget = 300
    /\ workers["a"].total > 300
    /\ workers["b"].call.owned # <<>>
    /\ workers["b"].build["CPU"] = workers["b"].call.owned["CPU"]

\* ------------------------------------------------------------------------
\* Properties of the budget shares and the selection steps (checked under
\* BuildSpec)
\* ------------------------------------------------------------------------
\* the shares of the budget with nothing owned, in hundredths
FullShares ==
    [GPU |-> 42, CPU |-> 20, Motherboard |-> 12, RAM |-> 10, Storage |-> 8,
     PSU |-> 5, Case |-> 3]

\* the allocations of the categories outside `have` sum to the budget: the
\* numerators over their common denominator d add up to budget * d, and the
\* weights of those categories add up to d
SharesSumToBudget(have) ==
    LET o == [c \in have |-> EmptyPart]
        d == alloc("GPU", call.budget, o).d
        n(c) == IF c \in have THEN 0 ELSE alloc(c, call.budget, o).n
    IN  /\ \A c \in Categories : alloc(c, call.budget, o).d = d
        /\ SumWeights(Categories \ have) = d
        /\ n("GPU") + n("CPU") + n("Motherboard") + n("RAM") + n("Storage")
              + n("PSU") + n("Case") = call.budget * d

\* C15: for every owned set that leaves a category to buy, the normalized
\* weights of the non-owned categories sum to 1 and their allocations sum to
\* the budget, an owned category taking no share; with nothing owned the
\* shares are 0.42, 0.20, 0.12, 0.10, 0.08, 0.05 and 0.03 of the budget.
\* The shares depend on the budget and the owned set alone, which a call
\* never changes: each call is checked as it begins for its own owned set,
\* and every owned set for the budget of each call that owns nothing.
C15_AllocationsSumToBudget ==
    (pc = "select" /\ idx = 1) =>
        /\ SharesSumToBudget(DOMAIN call.owned)
        /\ call.owned = <<>> =>
              \A have \in SUBSET Categories :
                  have # Categories => SharesSumToBudget(have)
        /\ \A c \in Categories :
              LET a == alloc(c, call.budget, <<>>)
              IN  a.n * 100 = call.budget * FullShares[c] * a.d

\* a call with CPU and RAM owned has returned: of a budget of 1500 the GPU
\* is allocated 42/70, that is 900
C15_Witness ==
    /\ Returned
    /\ DOMAIN call.owned = {"CPU", "RAM"}
    /\ call.budget = 1500
    /\ SharesSumToBudget(DOMAIN call.owned)
    /\ alloc("GPU", call.budget, call.owned).n = 900 * alloc("GPU", call.budget, call.owned).d

\* the selection step of cat has just run, for a category that is not owned
JustPicked(cat) ==
    /\ pc \in {"select", "ensure"}
    /\ idx = 1 + CHOOSE i \in DOMAIN StepOrder : StepOrder[i] = cat
    /\ cat \in NotOwned

\* the parts of category cat the requirements filter left
FilteredOf(cat) == {p \in Range(Filtered(CurCtx)) : p.category = cat}

\* price <= min(budget, alloc(cat) * mult / 100)
WithinCap(price, cat, mult) ==
    LET a == alloc(cat, call.budget, call.owned)
    IN  price <= call.budget /\ price * a.d * 100 <= a.n * mult

\* p is one of the cheapest parts of the set
CheapestOf(p, parts) == p \in parts /\ \A q \in parts : p.price_usd <= q.price_usd

\* p is one of the most expensive parts of the set
PriciestOf(p, parts) == p \in parts /\ \A q \in parts : q.price_usd <= p.price_usd

\* C16: when the CPU is not owned, the CPU step picks a most expensive
\* filtered CPU priced within min(budget, alloc(CPU) * 1.10), * 1.25 under
\* high_end, and the cheapest filtered CPU when none is within that cap.
C16_CpuStepPicksPriciestWithinCap ==
    JustPicked("CPU") =>
        LET mult == IF call.level = "high_end" THEN 125 ELSE 110
            fit == {c \in FilteredOf("CPU") : WithinCap(c.price_usd, "CPU", mult)}
        IN  IF fit # {} THEN PriciestOf(build["CPU"], fit)
            ELSE FilteredOf("CPU") # {} => CheapestOf(build["CPU"], FilteredOf("CPU"))

\* two CPUs are within the cap and the step took the dearer one
C16_Witness ==
    /\ JustPicked("CPU")
    /\ \E c \in FilteredOf("CPU") :
          /\ WithinCap(c.price_usd, "CPU", 110)
          /\ c.price_usd < build["CPU"].price_usd
    /\ WithinCap(build["CPU"].price_usd, "CPU", 110)

\* the RAM type the Motherboard step prefers
PreferredRam == IF call.budget >= 900 THEN "DDR5" ELSE "DDR4"

\* what C17 says of the board just picked, for a given set of boards that
\* match the socket of the build's CPU
BoardPickedFrom(match) ==
    LET boards == FilteredOf("Motherboard")
        pref == {m \in match : Has(Upper(m.ram_type), PreferredRam)}
    IN  IF pref # {} THEN PriciestOf(build["Motherboard"], pref)
        ELSE IF match # {} THEN PriciestOf(build["Motherboard"], match)
        ELSE IF boards # {} THEN CheapestOf(build["Motherboard"], boards)
        ELSE build["Motherboard"] = NoPart

\* C17 as stated: the socket of a matching board is the very string of the
\* CPU's socket.
C17_BoardOfSameSocketString ==
    JustPicked("Motherboard") =>
        BoardPickedFrom({m \in FilteredOf("Motherboard") :
                            m.socket = DictOrEmpty(build["CPU"]).socket})

\* C17: when the Motherboard is not owned, the board picked has the socket
\* of the build's CPU, compared with surrounding whitespace stripped, whenever
\* a filtered board has it; among those boards it is the most expensive one
\* supporting the preferred RAM type (DDR5 from a budget of 900, else DDR4),
\* else the most expensive of them; with no such board it is the cheapest
\* filtered board, and none when there is no board.
C17_BoardOfSameStrippedSocket ==
    JustPicked("Motherboard") =>
        BoardPickedFrom({m \in FilteredOf("Motherboard") :
                            Strip(m.socket) = Strip(DictOrEmpty(build["CPU"]).socket)})

\* a board whose socket field carries a trailing blank is picked for its
\* DDR5 support over a dearer DDR4 board of the same socket
C17_Witness ==
    /\ JustPicked("Motherboard")
    /\ PreferredRam = "DDR5"
    /\ build["Motherboard"].socket # build["CPU"].socket
    /\ Strip(build["Motherboard"].socket) = build["CPU"].socket
    /\ \E m \in FilteredOf("Motherboard") :
          /\ m.socket = build["CPU"].socket
          /\ m.price_usd > build["Motherboard"].price_usd

\* p has the highest score of the set
BestOf(cat, p, parts) ==
    p \in parts /\ \A q \in parts : Score(cat, q, CurCtx) <= Score(cat, p, CurCtx)

\* the capacity the RAM step asks for
NeedRam ==
    LET rec == OrElse(Reqs(CurCtx).recommended_ram, 16)
    IN  IF call.level = "high_end" THEN Max(32, rec) ELSE rec

\* the RAM-type set of the board the build holds
BoardTypes == ram_type_set(DictOrEmpty(build["Motherboard"]).ram_type)

\* what C18 says of the module just picked, given the eligible modules and
\* the eligible modules that are within the cap
RamPickedFrom(elig, fit) ==
    IF elig # {}
    THEN /\ build["RAM"] \in elig
         /\ IF fit # {} THEN BestOf("RAM", build["RAM"], fit)
            ELSE CheapestOf(build["RAM"], elig)
    ELSE FilteredOf("RAM") # {} => CheapestOf(build["RAM"], FilteredOf("RAM"))

\* C18 as stated: a module without a RAM type is eligible on any board, and
\* every eligible module priced at most the cap is within the cap.
C18_RamEligibleAndBest ==
    JustPicked("RAM") =>
        LET elig == {r \in FilteredOf("RAM") :
                        /\ r.capacity_gb >= NeedRam
                        /\ \/ ram_type_set(r.ram_type) \cap BoardTypes # {}
                           \/ ram_type_set(r.ram_type) = {}
                           \/ BoardTypes = {}}
        IN  RamPickedFrom(elig, {r \in elig : WithinCap(r.price_usd, "RAM", 125)})

\* C18: when the RAM is not owned, a module is eligible when its capacity is
\* at least the needed capacity and its RAM-type set intersects the board's
\* or the board's set is empty; if a filtered module is eligible the module
\* picked is eligible, the best-scoring of the eligible modules with a price
\* above 0 and within min(budget, alloc(RAM) * 1.25), else the cheapest
\* eligible one; with no eligible module it is the cheapest filtered module.
C18_RamEligibleOnBoardAndBestPriced ==
    JustPicked("RAM") =>
        LET elig == {r \in FilteredOf("RAM") :
                        /\ r.capacity_gb >= NeedRam
                        /\ \/ ram_type_set(r.ram_type) \cap BoardTypes # {}
                           \/ BoardTypes = {}}
        IN  RamPickedFrom(elig, {r \in elig : /\ r.price_usd > 0
                                              /\ WithinCap(r.price_usd, "RAM", 125)})

\* a cheaper module of sufficient capacity without a RAM type is passed over
\* on a board that names its types, and the module picked is the best within
\* the cap
C18_Witness ==
    /\ JustPicked("RAM")
    /\ BoardTypes # {}
    /\ \E r \in FilteredOf("RAM") :
          /\ ram_type_set(r.ram_type) = {}
          /\ r.capacity_gb >= NeedRam
          /\ r.price_usd < build["RAM"].price_usd
    /\ WithinCap(build["RAM"].price_usd, "RAM", 125)
    /\ ram_type_set(build["RAM"].ram_type) \cap BoardTypes # {}

\* the cap multiplier of the GPU step, in hundredths
GpuMult == IF call.level = "high_end" THEN 130 ELSE 120

\* what C19 says of the GPU just picked, given whether it is the best of the
\* GPUs that fit the cap and whether any GPU fits
GpuPickedFrom(anyfit, best) ==
    LET gpus == FilteredOf("GPU")
        all == {p \in Range(PARTS) : p.category = "GPU"}
    IN  IF anyfit THEN best
        ELSE IF gpus # {} THEN CheapestOf(build["GPU"], gpus)
        ELSE IF all # {} THEN CheapestOf(build["GPU"], all)
        ELSE build["GPU"] = NoPart

\* C19 as stated: every filtered GPU priced at most the cap fits it, and
\* among those the GPU picked has the most VRAM, the higher price deciding
\* between equal VRAM.
C19_GpuOfMostVramWithinCap ==
    JustPicked("GPU") =>
        LET fit == {g \in FilteredOf("GPU") : WithinCap(g.price_usd, "GPU", GpuMult)}
            g == build["GPU"]
        IN  GpuPickedFrom(fit # {},
                          /\ g \in fit
                          /\ \A q \in fit :
                                \/ q.vram_gb < g.vram_gb
                                \/ (q.vram_gb = g.vram_gb /\ q.price_usd <= g.price_usd))

\* C19: when the GPU is not owned, the GPU picked has the highest score
\* vram * 10000 + price among the filtered GPUs with a price above 0 and
\* within min(budget, alloc(GPU) * 1.20), * 1.30 under high_end; with no such
\* GPU it is the cheapest filtered GPU, and with no filtered GPU the cheapest
\* GPU of the catalog.
C19_GpuOfBestScorePricedWithinCap ==
    JustPicked("GPU") =>
        LET fit == {g \in FilteredOf("GPU") : /\ g.price_usd > 0
                                              /\ WithinCap(g.price_usd, "GPU", GpuMult)}
        IN  GpuPickedFrom(fit # {}, BestOf("GPU", build["GPU"], fit))

\* the GPU picked has more VRAM than a dearer GPU within the cap
C19_Witness ==
    /\ JustPicked("GPU")
    /\ build["GPU"].price_usd > 0
    /\ WithinCap(build["GPU"].price_usd, "GPU", GpuMult)
    /\ \E q \in FilteredOf("GPU") :
          /\ WithinCap(q.price_usd, "GPU", GpuMult)
          /\ q.vram_gb < build["GPU"].vram_gb
          /\ q.price_usd > build["GPU"].price_usd

\* the capacity the Storage step asks for
NeedGb == IF call.budget >= 1800 \/ call.level = "high_end" THEN 2000 ELSE 1000

\* the form factor of drive s matches the medium of the profile
MediumMatches(s) ==
    LET medium == LowerTok(Reqs(CurCtx).storage_type)
        ff == Lower(s.form_factor)
    IN  CASE medium = "nvme" -> Has(ff, "nvme") \/ Has(ff, "m.2")
          [] medium = "ssd" -> ~Has(ff, "hdd")
          [] OTHER -> TRUE

\* the filtered drives eligible by capacity and medium
EligibleDrives ==
    {s \in FilteredOf("Storage") : s.capacity_gb >= NeedGb /\ MediumMatches(s)}

\* C20 as stated: whenever a filtered drive is eligible, the drive picked is
\* eligible, priced within the cap, and the best-scoring of the eligible
\* drives priced at most the cap.
C20_DriveEligibleAndBestWithinCap ==
    JustPicked("Storage") =>
        (EligibleDrives # {} =>
            /\ build["Storage"] \in EligibleDrives
            /\ BestOf("Storage", build["Storage"],
                      {s \in EligibleDrives : WithinCap(s.price_usd, "Storage", 130)}))

\* C20: when the Storage is not owned, the capacity asked for is 2000 GB from
\* a budget of 1800 or under high_end, else 1000 GB; a drive is eligible when
\* it has that capacity and its form factor matches the profile's medium;
\* whenever a filtered drive is eligible, the drive picked is eligible: the
\* best-scoring (capacity + 5000 for an NVMe form factor + price) of the
\* eligible drives with a price above 0 and within min(budget,
\* alloc(Storage) * 1.30), else the cheapest eligible drive.
C20_DriveEligibleAndBestPricedWithinCap ==
    JustPicked("Storage") =>
        LET fit == {s \in EligibleDrives : /\ s.price_usd > 0
                                           /\ WithinCap(s.price_usd, "Storage", 130)}
        IN  EligibleDrives # {} =>
                /\ build["Storage"] \in EligibleDrives
                /\ IF fit # {} THEN BestOf("Storage", build["Storage"], fit)
                   ELSE CheapestOf(build["Storage"], EligibleDrives)

\* an NVMe drive is picked over an eligible SATA drive within the cap that is
\* larger and dearer, and a cheaper drive within the cap is not eligible
C20_Witness ==
    /\ JustPicked("Storage")
    /\ WithinCap(build["Storage"].price_usd, "Storage", 130)
    /\ \E s \in EligibleDrives :
          /\ WithinCap(s.price_usd, "Storage", 130)
          /\ s.capacity_gb > build["Storage"].capacity_gb
          /\ s.price_usd > build["Storage"].price_usd
    /\ \E s \in FilteredOf("Storage") \ EligibleDrives :
          s.price_usd < build["Storage"].price_usd

\* ------------------------------------------------------------------------
\* Properties of the Case and PSU steps (checked under BuildSpec)
\* ------------------------------------------------------------------------
\* the build's GPU, owned or selected, has a recorded length
GpuHasLength == Truthy(build["GPU"]) /\ build["GPU"].length_mm > 0

\* the filtered cases that take the build's GPU
FittingCases ==
    {c \in FilteredOf("Case") : c.max_gpu_length_mm >= build["GPU"].length_mm}

\* C21: when the Case is not owned, the case picked is the most expensive of
\* the filtered cases that take the build's GPU, and gpu_case passes on it,
\* whenever the GPU has a recorded length and such a case exists; with no
\* GPU, no recorded length or no fitting case it is the most expensive
\* filtered case.
C21_CasePriciestFitting ==
    JustPicked("Case") =>
        IF GpuHasLength /\ FittingCases # {}
        THEN /\ PriciestOf(build["Case"], FittingCases)
             /\ gpu_case(build["GPU"], build["Case"]).ok
        ELSE FilteredOf("Case") # {} => PriciestOf(build["Case"], FilteredOf("Case"))

\* the case picked takes the GPU while a dearer case does not
C21_Witness ==
    /\ JustPicked("Case")
    /\ GpuHasLength
    /\ build["Case"] \in FittingCases
    /\ \E c \in FilteredOf("Case") \ FittingCases :
          c.price_usd > build["Case"].price_usd

\* the wattage the PSU step asks for
NeedWatts ==
    IF Truthy(build["GPU"]) /\ build["GPU"].psu_wattage # 0
    THEN build["GPU"].psu_wattage ELSE 650

\* the filtered PSUs of at least that wattage
QualifyingPsus == {p \in FilteredOf("PSU") : p.psu_wattage >= NeedWatts}

\* the PSUs the step considers: the qualifying ones, all when none qualifies
ConsideredPsus == IF QualifyingPsus # {} THEN QualifyingPsus ELSE FilteredOf("PSU")

\* p is at position k of the set sorted by ascending price
AtPricePosition(p, k, parts) ==
    /\ p \in parts
    /\ Cardinality({q \in parts : q.price_usd < p.price_usd}) < k
    /\ Cardinality({q \in parts : q.price_usd <= p.price_usd}) >= k

\* C22: when the PSU is not owned, the PSU picked is one of the considered
\* PSUs, so it has the wattage asked for (the GPU's, else 650) whenever a
\* filtered PSU has it; it is the most expensive considered PSU under
\* prefer-quiet and otherwise the one at position min(n, 3) by ascending
\* price.
C22_PsuOfRequiredWattage ==
    JustPicked("PSU") =>
        (FilteredOf("PSU") # {} =>
            /\ build["PSU"] \in ConsideredPsus
            /\ QualifyingPsus # {} => build["PSU"].psu_wattage >= NeedWatts
            /\ IF wants_quiet(call.message)
               THEN PriciestOf(build["PSU"], ConsideredPsus)
               ELSE AtPricePosition(build["PSU"], Min(Cardinality(ConsideredPsus), 3),
                                    ConsideredPsus))

\* the GPU declares a wattage that only some PSUs have, and the PSU picked
\* has it while the third PSU by price has not
C22_Witness ==
    /\ JustPicked("PSU")
    /\ Truthy(build["GPU"])
    /\ build["GPU"].psu_wattage > 650
    /\ build["PSU"].psu_wattage >= build["GPU"].psu_wattage
    /\ AtPricePosition(build["PSU"], 1, QualifyingPsus)
    /\ \E p \in FilteredOf("PSU") :
          /\ AtPricePosition(p, 3, FilteredOf("PSU"))
          /\ p.psu_wattage < NeedWatts

\* no two qualifying PSUs have the same price
DistinctPrices ==
    \A p, q \in QualifyingPsus : p # q => p.price_usd # q.price_usd

\* the PSU picked is strictly between the cheapest and the most expensive
\* qualifying PSU
StrictlyInside ==
    /\ \E q \in QualifyingPsus : q.price_usd < build["PSU"].price_usd
    /\ \E q \in QualifyingPsus : q.price_usd > build["PSU"].price_usd

\* C23 as stated: three qualifying PSUs of distinct prices are enough for the
\* PSU picked without prefer-quiet to be neither the cheapest nor the most
\* expensive of them.
C23_MidPsuOfThree ==
    (JustPicked("PSU") /\ ~wants_quiet(call.message)
        /\ Cardinality(QualifyingPsus) >= 3 /\ DistinctPrices) => StrictlyInside

\* C23: without prefer-quiet and with at least four qualifying PSUs, all of
\* distinct prices, the PSU picked is neither the cheapest nor the most
\* expensive qualifying PSU.
C23_MidPsuOfFour ==
    (JustPicked("PSU") /\ ~wants_quiet(call.message)
        /\ Cardinality(QualifyingPsus) >= 4 /\ DistinctPrices) => StrictlyInside

\* four PSUs qualify and the third by price is picked
C23_Witness ==
    /\ JustPicked("PSU")
    /\ ~wants_quiet(call.message)
    /\ Cardinality(QualifyingPsus) = 4
    /\ DistinctPrices
    /\ StrictlyInside
    /\ AtPricePosition(build["PSU"], 3, QualifyingPsus)

\* ------------------------------------------------------------------------
\* Properties of the candidate filter and the profile (checked under
\* BuildSpec)
\* ------------------------------------------------------------------------
\* the rows recommend_parts_for_requirements keeps for the call
KeptRows == recommend_parts_for_requirements(Reqs(CurCtx), PARTS, call.budget)

\* the VRAM floor of a tier
TierFloor(tier) ==
    CASE tier = "high" -> 12
      [] tier = "mid" -> 8
      [] tier = "low" -> 4

\* what C24 says of a kept row, the price limit applying unless `unpriced`
ClaimedKept(p, unpriced) ==
    LET r == Reqs(CurCtx)
    IN  \/ p.category = "RAM" /\ p.capacity_gb >= Min(r.recommended_ram, 32)
        \/ /\ p.category = "GPU"
           /\ p.vram_gb >= r.gpu_vram
           /\ p.vram_gb >= TierFloor(r.min_gpu_tier)
           /\ unpriced \/ p.price_usd * 100 <= call.budget * 80
        \/ p.category \notin {"RAM", "GPU"}

\* the kept rows are the rows of the catalog that satisfy Keep, in catalog
\* order
KeptAre(Keep(_)) == KeptRows = SelectSeq(PARTS, Keep)

\* C24 as stated: only the high tier lifts the price limit of 80% of the
\* budget.
C24_FilterKeepsAsClaimed ==
    LET Keep(p) == ClaimedKept(p, Reqs(CurCtx).min_gpu_tier = "high")
    IN  KeptAre(Keep)

\* C24: the filter keeps, in catalog order, exactly the RAM rows of capacity
\* >= min(recommended_ram, 32), the GPU rows with VRAM >= the profile's VRAM
\* and >= the tier floor whose price is <= 80% of the budget unless the tier
\* is high or the budget is 0, and every row of another category.
C24_FilterKeepsUnlessNoBudget ==
    LET Keep(p) == ClaimedKept(p, Reqs(CurCtx).min_gpu_tier = "high" \/ call.budget = 0)
    IN  KeptAre(Keep)

\* the first steps of a call with a budget have run on a filtered catalog
\* that lost a RAM row, a GPU row for its VRAM and a GPU row for its price,
\* and kept a GPU row
C24_Witness ==
    /\ pc = "select"
    /\ idx > 1
    /\ call.budget > 0
    /\ \E p \in Range(PARTS) \ Range(KeptRows) : p.category = "RAM"
    /\ \E p \in Range(PARTS) \ Range(KeptRows) :
          /\ p.category = "GPU"
          /\ p.vram_gb < TierFloor(Reqs(CurCtx).min_gpu_tier)
    /\ \E p \in Range(PARTS) \ Range(KeptRows) :
          /\ p.category = "GPU"
          /\ p.vram_gb >= TierFloor(Reqs(CurCtx).min_gpu_tier)
          /\ p.price_usd * 100 > call.budget * 80
    /\ \E p \in Range(KeptRows) : p.category = "GPU"

\* the rows of category cat the filter keeps
KeptOf(cat) == {p \in Range(KeptRows) : p.category = cat}

\* the filter removed every row of cat, and the catalog has one
FilterEmptied(cat) == KeptOf(cat) = {} /\ InCatalog(cat) # {}

\* the selection steps and the fallback have run
AssembledNow == pc = "reconcile" /\ idx = 1

\* C25 as stated: a step whose category the filter emptied selects over the
\* catalog's parts of that category, so it yields a part, and for the GPU
\* the best-scoring priced GPU of the catalog within the cap if there is one.
C25_StepSelectsOverCatalog ==
    \A cat \in Categories :
        (JustPicked(cat) /\ FilterEmptied(cat)) =>
            /\ Truthy(build[cat])
            /\ cat = "GPU" =>
                  LET fit == {g \in InCatalog("GPU") :
                                 /\ g.price_usd > 0
                                 /\ WithinCap(g.price_usd, "GPU", GpuMult)}
                  IN  fit # {} => BestOf("GPU", build["GPU"], fit)

\* C25: when the filter removes every row of a category but not every row of
\* the catalog, the GPU step takes the cheapest GPU of the catalog and the
\* step of another category takes nothing, the fallback after the steps
\* supplying the cheapest part of that category of the catalog; when the
\* filter removes every row of the catalog the steps select over the whole
\* catalog; the assembled build lacks no category the catalog has.
C25_CheapestOfCatalogWhenEmptied ==
    /\ \A cat \in Categories :
          (JustPicked(cat) /\ FilterEmptied(cat)) =>
              IF KeptRows = <<>> THEN FilteredOf(cat) = InCatalog(cat)
              ELSE IF cat = "GPU" THEN CheapestOf(build[cat], InCatalog(cat))
              ELSE build[cat] = NoPart
    /\ AssembledNow =>
          \A cat \in NotOwned :
              /\ InCatalog(cat) # {} => Truthy(build[cat])
              /\ (FilterEmptied(cat) /\ KeptRows # <<>>) =>
                    CheapestOf(build[cat], InCatalog(cat))

\* the filter emptied the GPUs, a dearer GPU of the catalog is priced within
\* the cap, and the assembled build holds the cheapest GPU of the catalog
C25_Witness ==
    /\ AssembledNow
    /\ "GPU" \in NotOwned
    /\ FilterEmptied("GPU")
    /\ KeptRows # <<>>
    /\ CheapestOf(build["GPU"], InCatalog("GPU"))
    /\ \E g \in InCatalog("GPU") :
          /\ g.price_usd > build["GPU"].price_usd
          /\ WithinCap(g.price_usd, "GPU", GpuMult)

\* the profile get_requirements_analysis returns for the message of the call
\* with the given titles
ProfileOf(titles) ==
    get_requirements_analysis(SelectSeq(titles, has_app), SelectSeq(titles, has_game),
                              call.message)

\* the applications and the games among the titles of the message
MatchedApps == {x \in Range(call.message.titles) : has_app(x)}
MatchedGames == {x \in Range(call.message.titles) : has_game(x)}

\* the message names a content-creation keyword
ContentCreation ==
    call.message.words \cap {"editing", "premiere", "davinci", "after effects"} # {}

SetMax(S) == CHOOSE m \in S : \A x \in S : x <= m

\* the maximum of the default of a numeric field and the values the matched
\* titles give it
MaxOfTitles(f) ==
    SetMax({DefaultAnalysis[f]}
             \cup {APPLICATION_REQUIREMENTS[x][f] : x \in MatchedApps}
             \cup (IF f \in {"min_ram", "recommended_ram"}
                   THEN {GAME_REQUIREMENTS[x][f] : x \in MatchedGames} ELSE {}))

\* the highest rank among the default tier and the tiers of the matched games
TopRankOfGames ==
    SetMax({tiers[DefaultAnalysis.min_gpu_tier]}
             \cup {tiers[infer_gpu_tier_from_text(GAME_REQUIREMENTS[x].recommended_gpu)] :
                      x \in MatchedGames}
             \cup {tiers[infer_gpu_tier_from_text(GAME_REQUIREMENTS[x].min_gpu)] :
                      x \in MatchedGames})

NumericFields == {"min_ram", "recommended_ram", "cpu_cores", "gpu_vram"}

\* profile b is not below profile a in any field
NotLower(a, b) ==
    /\ \A f \in NumericFields : a[f] <= b[f]
    /\ tiers[a.min_gpu_tier] <= tiers[b.min_gpu_tier]
    /\ a.storage_type = "NVMe" => b.storage_type = "NVMe"

\* a further title, known or not, never lowers a field (checked as a call
\* begins: the message is the same throughout the call)
TitlesOnlyRaise ==
    \A x \in DOMAIN APPLICATION_REQUIREMENTS \cup DOMAIN GAME_REQUIREMENTS \cup {"notepad"} :
        NotLower(ProfileOf(call.message.titles), ProfileOf(Append(call.message.titles, x)))

\* C26 as stated: apart from the defaults of a message without title and
\* keyword, the numeric fields are the maxima over the matched titles and the
\* tier is the highest of the matched games.
C26_ProfileIsMaxOfTitles ==
    LET a == ProfileOf(call.message.titles)
    IN  /\ (MatchedApps \cup MatchedGames = {} /\ ~ContentCreation) => a = DefaultAnalysis
        /\ \A f \in NumericFields : a[f] = MaxOfTitles(f)
        /\ tiers[a.min_gpu_tier] = TopRankOfGames
        /\ (pc = "select" /\ idx = 1) => TitlesOnlyRaise

\* C26: the profile is the defaults for a message without title and keyword;
\* its numeric fields are the maxima of the default and the matched titles'
\* values and its tier the highest of the default and the matched games'
\* tiers, except that a content-creation keyword raises recommended_ram to at
\* least 32 and sets the tier to high; a further title never lowers a field.
C26_ProfileIsMaxOfTitlesAndKeyword ==
    LET a == ProfileOf(call.message.titles)
    IN  /\ (MatchedApps \cup MatchedGames = {} /\ ~ContentCreation) => a = DefaultAnalysis
        /\ \A f \in NumericFields \ {"recommended_ram"} : a[f] = MaxOfTitles(f)
        /\ a.recommended_ram =
              IF ContentCreation THEN Max(32, MaxOfTitles("recommended_ram"))
              ELSE MaxOfTitles("recommended_ram")
        /\ tiers[a.min_gpu_tier] = IF ContentCreation THEN tiers["high"] ELSE TopRankOfGames
        /\ (pc = "select" /\ idx = 1) => TitlesOnlyRaise

\* build_always has built the profile of a message that names an application
\* and a game and no keyword: the application decides the recommended RAM
\* and the game the tier
C26_Witness ==
    /\ pc = "select"
    /\ idx > 1
    /\ MatchedApps # {}
    /\ MatchedGames # {}
    /\ ~ContentCreation
    /\ ProfileOf(call.message.titles).recommended_ram > DefaultAnalysis.recommended_ram
    /\ ProfileOf(call.message.titles).min_gpu_tier = "mid"
    /\ \E x \in MatchedGames :
          GAME_REQUIREMENTS[x].recommended_ram < ProfileOf(call.message.titles).recommended_ram

\* C27: the profile build_always works with is the profile of the profile
\* builder with recommended_ram = max(16, min_ram) at level minimum, with
\* recommended_ram = max(32, recommended_ram), tier high and storage NVMe at
\* level high_end, and unchanged at the levels recommended and both.
C27_LevelAdjustsProfile ==
    LET base == ProfileOf(call.message.titles)
        used == Reqs(CurCtx)
    IN  /\ call.level \in {"minimum", "high_end", "recommended", "both"}
        /\ call.level = "minimum" =>
              used = [base EXCEPT !.recommended_ram = Max(16, base.min_ram)]
        /\ call.level = "high_end" =>
              used = [base EXCEPT !.recommended_ram = Max(32, base.recommended_ram),
                                  !.min_gpu_tier = "high",
                                  !.storage_type = "NVMe"]
        /\ call.level \in {"recommended", "both"} => used = base

\* build_always runs at level minimum with a profile whose recommended RAM
\* the adjustment lowered to the minimum RAM
C27_Witness ==
    /\ pc = "select"
    /\ idx > 1
    /\ call.level = "minimum"
    /\ Reqs(CurCtx).recommended_ram < ProfileOf(call.message.titles).recommended_ram
    /\ Reqs(CurCtx).recommended_ram = ProfileOf(call.message.titles).min_ram

\* ------------------------------------------------------------------------
\* Properties of the budget reconciler (checked under BuildSpec)
\* ------------------------------------------------------------------------
\* C28 as stated: when the assembled build has no compatibility issue and its
\* total exceeds the budget, the build returned after the reconciler's
\* substitutions has no compatibility issue either.
C28_ReconcilerKeepsCompatible ==
    (Reconciled /\ check_full_build_compatibility(Assembled(CurCtx)).compatible) =>
        check_full_build_compatibility(build).compatible

\* the order in which C29 says the reconciler visits the categories
VisitOrder == <<"GPU", "CPU", "Motherboard", "RAM", "Storage", "PSU", "Case">>

\* a step of the reconciler that substitutes: the build is over budget, the
\* category visited is not owned, and its part alone gives way to a strictly
\* cheaper part of the same category, which lowers the total
Substitution ==
    /\ idx \in DOMAIN VisitOrder
    /\ total > call.budget
    /\ VisitOrder[idx] \in NotOwned
    /\ \A c \in Categories \ {VisitOrder[idx]} : build'[c] = build[c]
    /\ build'[VisitOrder[idx]].category = VisitOrder[idx]
    /\ build'[VisitOrder[idx]].price_usd < build[VisitOrder[idx]].price_usd
    /\ total' < total

\* what a step taken in or after the reconciler may do
ReconcilerStep ==
    (pc \in {"reconcile", "done"}) =>
        /\ build' # build => Substitution
        /\ build' = build => total' = total
        /\ idx' # idx => (pc = "reconcile" /\ pc' = "reconcile" /\ idx' = idx + 1)

\* C29: with an assembled total within the budget the reconciler changes
\* nothing; otherwise it passes once over GPU, CPU, Motherboard, RAM, Storage,
\* PSU, Case, each substitution putting a strictly cheaper part of the same
\* category in a non-owned category and lowering the total, and none
\* happening once the total is within the budget.
C29_ReconcilerOnlyLowers == [][ReconcilerStep]_vars

\* the reconciler has replaced the GPU and the CPU and stopped within the
\* budget before visiting the Motherboard
C29_Witness ==
    /\ Returned
    /\ idx = 3
    /\ total <= call.budget
    /\ build["GPU"].price_usd < Assembled(CurCtx)["GPU"].price_usd
    /\ build["CPU"].price_usd < Assembled(CurCtx)["CPU"].price_usd
    /\ TotalOf(CurCtx, Assembled(CurCtx)) > call.budget

\* ------------------------------------------------------------------------
\* Session budget memory (checked under Spec)
\* ------------------------------------------------------------------------
\* the build requests made before the i-th in the session of the i-th
EarlierOfSession(i) ==
    {j \in 1..(i - 1) : history[j].session_id = history[i].session_id}

\* whether the i-th build request has a session with an earlier build request
HasEarlier(i) == history[i].session_id # <<>> /\ EarlierOfSession(i) # {}

\* the budget the most recent earlier build request of that session used
EarlierBudget(i) == history[SetMax(EarlierOfSession(i))].call.budget

\* the build requests made so far in session sid
BuildsOf(sid) == {j \in DOMAIN history : history[j].session_id = sid}

\* SESSION_MEM holds a dict for no empty session id, and a session's
\* remembered budget is the budget its latest build request used: no request
\* of another session and no request of another intent has changed it
RememberedIsLatestBuild ==
    /\ <<>> \notin DOMAIN SESSION_MEM
    /\ \A sid \in DOMAIN SESSION_MEM :
          IF BuildsOf(sid) = {} THEN "last_budget" \notin DOMAIN SESSION_MEM[sid]
          ELSE /\ "last_budget" \in DOMAIN SESSION_MEM[sid]
               /\ SESSION_MEM[sid]["last_budget"] =
                     history[SetMax(BuildsOf(sid))].call.budget
    /\ \A j \in DOMAIN history :
          history[j].session_id # <<>> => history[j].session_id \in DOMAIN SESSION_MEM

\* the build requests that stated no budget used Used(i)
UnstatedUse(Used(_)) ==
    \A i \in DOMAIN history :
        extract_budget(history[i].call.message) = NoBudget =>
            history[i].call.budget = Used(i)

\* what the claim as first stated has such a request use
UsedAsClaimed(i) == IF HasEarlier(i) THEN EarlierBudget(i) ELSE 1500

\* what it uses: `mem.get("last_budget") or 1500` takes a remembered 0 for none
UsedUnlessZero(i) ==
    IF HasEarlier(i) /\ EarlierBudget(i) # 0 THEN EarlierBudget(i) ELSE 1500

\* C30 as first stated: a build request stating no budget uses the budget of
\* the most recent earlier build request of its non-empty session id, and 1500
\* if there is none.
C30_UnstatedUsesLatestOfSession ==
    /\ UnstatedUse(UsedAsClaimed)
    /\ RememberedIsLatestBuild

\* C30: a build request stating no budget uses the budget of the most recent
\* earlier build request of its non-empty session id unless that budget was 0,
\* and 1500 if that budget was 0, if there is no such request or if the
\* session id is empty; requests of other sessions and requests of the other
\* intents leave a session's remembered budget alone.
C30_UnstatedUsesLatestNonZeroOfSession ==
    /\ UnstatedUse(UsedUnlessZero)
    /\ RememberedIsLatestBuild

\* a third build request states no budget and uses the 600 of the first, of
\* its session, after a build request of another session used another budget
C30_Witness ==
    /\ Len(history) = 3
    /\ extract_budget(history[3].call.message) = NoBudget
    /\ history[3].session_id # <<>>
    /\ history[1].session_id = history[3].session_id
    /\ history[2].session_id \notin {<<>>, history[3].session_id}
    /\ history[1].call.budget = 600
    /\ history[2].call.budget = 1800
    /\ history[3].call.budget = 600
    /\ req.message = history[3].call.message
    /\ Strip(req.session_id) = history[3].session_id

====
